---------------------------- MODULE Spec2Model ----------------------------
(***************************************************************************)
(* A model of the StepTwo content helpers (src/content/robust-helpers.js): *)
(* the selector wait/retry engine (RobustHelpers.waitForSelector and       *)
(* _waitForSelectorAttempt) and the image gatherer (gatherImages,          *)
(* extractImageFromElement, extractBackgroundImages, normalizeUrl,         *)
(* isValidImageUrl, validateImageData).                                    *)
(*                                                                         *)
(* Each async function is a state machine whose steps are the synchronous  *)
(* runs between two awaits; the page changes only while a function is      *)
(* suspended.  Time is a clock in milliseconds that advances only while a  *)
(* function sleeps.                                                        *)
(***************************************************************************)
EXTENDS Integers, Sequences, FiniteSets, TLC

\* JavaScript's undefined (an option the caller did not pass) and null.
Undef == "undefined"

(***************************************************************************)
(* Bounds of the model.                                                    *)
(***************************************************************************)
\* Nodes of the context tree searched by waitForSelector.
MaxNodes == 2
\* Nodes of a page gatherImages runs on.
MaxPageNodes == 2
\* Candidate selectors handed to one waitForSelector call.
MaxSelectors == 2
\* Largest value of options.retries the caller passes explicitly.
MaxRetries == 2
\* A timer fires at most this many milliseconds late.
MaxSlack == 1
\* Changes the page makes to the tree while waitForSelector is suspended.
MaxMutations == 1
\* Slashes at the end of a path handed to normalizeUrl.
MaxTrailingSlashes == 2
\* Query parameters of a URL handed to normalizeUrl.
MaxParams == 2
\* IMG elements of a page the gallery detection runs on.
MaxImages == 10
\* Calls of detectGalleryPage in one page load.
MaxCalls == 2
\* Changes of content or location a page undergoes in one page load.
MaxPageChanges == 1
\* Nodes of a page smartElementDetection ranks.
MaxScoreNodes == 3
\* Items handed to batchProcess, and the largest batchSize a caller passes.
MaxItems == 4
MaxBatchSize == 2
\* How far from its capacity the selector cache is when the calls start to
\* vary, and the calls and clock advances made from then on.
CacheHeadroom == 2
MaxCacheCalls == 5

\* Fields of a formData passed to fillForm.
MaxFields == 2

\* Calls of loadEnhancedModules in one page context.
MaxLoaderCalls == 2

\* The largest retries option passed to clickElement.
MaxClickRetries == 2

\* Records the pages of a traversal hold between them.
MaxRecords == 3

\* The largest configured maximum round count of a traversal.
MaxRoundCount == 4

(***************************************************************************)
(* Defaults of waitForSelector's options (robust-helpers.js:23-33).        *)
(***************************************************************************)
DefaultTimeout == 10000
DefaultInterval == 100
DefaultRetries == 3

VARIABLES
    \* ---- waitForSelector ----
    context,        \* config.context: the tree, a sequence of nodes in document order
    selectorArray,  \* the candidate selectors, in the given order
    config,         \* the merged configuration
    attempt,        \* the for-loop counter of waitForSelector
    startTime,      \* _waitForSelectorAttempt's startTime
    clock,          \* Date.now()
    wakeAt,         \* when the pending sleep() is due
    pc,             \* where waitForSelector is suspended or about to continue
    outcome,        \* how waitForSelector ended: what it returned or that it raised
    mutationsLeft,  \* changes the page may still make to the tree
    \* ---- history of the waitForSelector call, for the properties ----
    attemptsStarted,  \* calls of _waitForSelectorAttempt made
    lastAttemptEnd,   \* clock when the last unsuccessful attempt returned
    polled,           \* the tree as the last poll saw it, and what the poll found
    \* ---- gatherImages ----
    document,         \* the page: a sequence of nodes in document order
    gatherConfig,     \* gatherImages' merged configuration
    gatherPc,         \* where gatherImages is suspended or about to continue
    cursor,           \* position in the work of the current pass
    pendingUrl,       \* the normalized URL whose dimensions are being looked up
    imageResults,     \* gatherImages' imageResults
    seenUrls,         \* gatherImages' seenUrls
    backgroundImages, \* extractBackgroundImages' backgroundImages
    \* ---- history of the gatherImages call, for the properties ----
    extracted,        \* the last node extractImageFromElement ran on, and the URL it took
    encountered,      \* the URLs of the records that reached the duplicate check, in order
    lookups,          \* the dimension lookups that settled, in order, and how
    \* ---- normalizeUrl ----
    urlInput,         \* the url argument
    urlOptions,       \* the options argument
    urlLocation,      \* window.location of the page
    urlPc,            \* "call", then "returned", then "renormalized"
    urlResult,        \* normalizeUrl(url, options)
    urlAgain,         \* normalizeUrl of that result, under the same options
    \* ---- injector.js: gallery detection ----
    pageDocument,          \* the content of the page the injector runs in
    pageLocation,          \* window.location of that page
    isGalleryPage,         \* the injector's isGalleryPage
    galleryDetectionCache, \* <<>> for null, <<v>> for the boolean v
    changesLeft,           \* changes the page may still undergo
    \* ---- history of the detection, for the properties ----
    detectCalls,           \* the calls of detectGalleryPage made, in order
    evaluatedOn,           \* the content and location the signals were last evaluated on
    \* ---- smartElementDetection ----
    allElements,           \* document.querySelectorAll('*'): the nodes in document order
    criteria,              \* the criteria argument: a record of the keys the caller passed
    scorePc,               \* "call", then "returned" or "raised"
    candidates,            \* the list smartElementDetection returned
    \* ---- batchProcess ----
    batchElements,         \* the elements argument: the items, each with what the processor does on it
    batchConfig,           \* batchProcess' merged configuration
    batchI,                \* the loop variable i
    batchPc,               \* where batchProcess is suspended, or how it ended
    batchPromises,         \* per item, the state of its promise of batchPromises
    batchResults,          \* batchProcess' results
    batchError,            \* what batchProcess raised
    completions,           \* the items whose invocation settled, in the order they did
    \* ---- history of the batchProcess call, for the properties ----
    sinceSettled,          \* time slept since Promise.all of the last chunk resolved
    invocations,           \* the calls of processor made, in order
    \* ---- injector.js: SelectorCache ----
    selectorCache,         \* this.cache: the Map's entries in its iteration order
    cacheClock,            \* Date.now()
    \* ---- history of the selector cache, for the properties ----
    cacheWrites,           \* every setCachedSelector call made, in order
    cacheBefore,           \* this.cache as it was before the last call
    lastCall,              \* the last call: what it was given, evicted and returned
    cacheCallsLeft,        \* calls and clock advances still to come after the filling
    abortSignal,      \* whether the caller has aborted the signal it passed as options.signal
    atAbort,          \* what batchProcess had started and collected when the caller aborted
    pagPc,            \* the traverser's state: Idle, Extracting, AdvancingPage, Scrolling, Settling, Done
    paginationState,  \* PaginationState: roundIndex, lastControlSelectorUsed, terminationReason
    accumulated,      \* the AssetRecords accumulated over the rounds, in the order first seen
    maxRoundCount,    \* the configured maximum round count
    rounds,           \* per round extracted: what the gatherer yielded, how much was new, settled or not
    clickDom,         \* the page clickElement acts on: the node of the element, as it is now
    clickTarget,      \* the element argument: a handle into clickDom, or NullElement
    clickConfig,      \* clickElement's config
    clickAttempt,     \* attempt
    clickPc,          \* where the call of clickElement is
    clickResult,      \* what the call returned, or the error it raised
    clickChecks,      \* per attempt that got to line 474: what the two checks found
    activations,      \* the activations dispatched on the element: attempt and strategy
    enhancedModulesLoaded, \* the injector's flag (injector.js:17)
    loaderCalls,      \* the calls of loadEnhancedModules made in this page context, in the order made
    formData,         \* fillForm's formData: the names of the fields, in the order of Object.entries
    formConfig,       \* fillForm's config
    formI,            \* how many entries of formData the loop has taken
    formPc,           \* where the call of fillForm is
    formResults,      \* results
    fieldLookups,     \* per field taken: what waitForSelector returned for it
    submitLookup,     \* what waitForSelector returned for the submit button
    isDemo,           \* this.isDemo
    sourceTab,        \* whether this.sourceTab is set (the URL named a source tab)
    extensionContext, \* whether the page runs in the extension (chrome.runtime.id, chrome.tabs, chrome.storage)
    smartSelectorActive, \* this.smartSelectorActive
    scrapingActive,   \* this.scrapingActive
    settings,         \* this.settings: property name to value
    controls,         \* the settings controls of the page: checked, or the text of the field
    changed,          \* the controls the user has changed since the page last wrote them
    pickedSelector,   \* the selector the "use" button holds, or NoSelector
    lastTabMessage,   \* the last message sent to the page tab with chrome.tabs.sendMessage
    storage           \* chrome.storage.local as saveSettings last wrote it

waitVars == <<context, selectorArray, config, attempt, startTime, clock, wakeAt,
              pc, outcome, mutationsLeft, attemptsStarted, lastAttemptEnd, polled>>

gatherVars == <<document, gatherConfig, gatherPc, cursor, pendingUrl, imageResults,
                seenUrls, backgroundImages, extracted, encountered, lookups>>

urlVars == <<urlInput, urlOptions, urlLocation, urlPc, urlResult, urlAgain>>

detectVars == <<pageDocument, pageLocation, isGalleryPage, galleryDetectionCache,
                changesLeft, detectCalls, evaluatedOn>>

scoreVars == <<allElements, criteria, scorePc, candidates>>

batchVars == <<batchElements, batchConfig, batchI, batchPc, batchPromises, batchResults,
               batchError, completions, sinceSettled, invocations>>

cacheVars == <<selectorCache, cacheClock, cacheWrites, cacheBefore, lastCall, cacheCallsLeft>>

cancelVars == <<abortSignal, atAbort>>

pagVars == <<pagPc, paginationState, accumulated, maxRoundCount, rounds>>

clickVars == <<clickDom, clickTarget, clickConfig, clickAttempt, clickPc, clickResult,
               clickChecks, activations>>

loaderVars == <<enhancedModulesLoaded, loaderCalls>>

formVars == <<formData, formConfig, formI, formPc, formResults, fieldLookups, submitLookup>>

dashVars == <<isDemo, sourceTab, extensionContext, smartSelectorActive, scrapingActive, settings,
              controls, changed, pickedSelector, lastTabMessage, storage>>

vars == <<waitVars, gatherVars, urlVars, detectVars, scoreVars, batchVars, cacheVars, cancelVars, pagVars, clickVars, loaderVars, formVars, dashVars>>

(***************************************************************************)
(* The tree.  A node records which well-formed candidate selectors match   *)
(* it (the CSS engine is the page's), and the verdicts of                  *)
(* isElementVisible and isElementEnabled on it.  An element handle is the  *)
(* node's position in document order.                                      *)
(***************************************************************************)
WellFormed == {"a", "b"}
Malformed == {"bad"}
Selectors == WellFormed \cup Malformed

\* A node matches at least one candidate; it is hidden, disabled or neither.
NodeKinds ==
    {k \in [sels : (SUBSET WellFormed) \ {{}}, vis : BOOLEAN, en : BOOLEAN] :
        k.vis \/ k.en}

SeqsUpTo(S, n) == UNION {[1..k -> S] : k \in 0..n}

Doms == SeqsUpTo(NodeKinds, MaxNodes)

\* Sequences of distinct selectors, at least one.
SelectorLists ==
    {s \in SeqsUpTo(Selectors, MaxSelectors) :
        Len(s) >= 1 /\ \A i, j \in 1..Len(s) : i # j => s[i] # s[j]}

\* The subsequence of the handles in els that satisfy P, order kept.
RECURSIVE FilterSeq(_, _)
FilterSeq(els, keep) ==
    IF els = <<>> THEN <<>>
    ELSE IF Head(els) \in keep THEN <<Head(els)>> \o FilterSeq(Tail(els), keep)
         ELSE FilterSeq(Tail(els), keep)

Handles(dom) == [i \in 1..Len(dom) |-> i]

\* context.querySelectorAll(selector): every match, in document order.
querySelectorAll(dom, selector) ==
    FilterSeq(Handles(dom), {i \in 1..Len(dom) : selector \in dom[i].sels})

\* [context.querySelector(selector)].filter(Boolean): the first match, if any.
querySelectorFirst(dom, selector) ==
    LET all == querySelectorAll(dom, selector)
    IN  IF all = <<>> THEN <<>> ELSE <<Head(all)>>

isElementVisible(dom, el) == dom[el].vis
isElementEnabled(dom, el) == dom[el].en

(***************************************************************************)
(* waitForSelector's options and configuration (robust-helpers.js:23-33).  *)
(* The options object is a record holding only the keys the caller passed. *)
(* The defaults are listed first and ...options last, so a key the caller  *)
(* passed always wins and a missing key takes its default.                 *)
(***************************************************************************)
Has(options, key) == key \in DOMAIN options

Opt(options, key, default) == IF Has(options, key) THEN options[key] ELSE default

MakeConfig(options) ==
    [timeout        |-> Opt(options, "timeout", DefaultTimeout),
     interval       |-> Opt(options, "interval", DefaultInterval),
     visible        |-> Opt(options, "visible", TRUE),
     enabled        |-> Opt(options, "enabled", TRUE),
     multiple       |-> Opt(options, "multiple", FALSE),
     retries        |-> Opt(options, "retries", DefaultRetries),
     throwOnTimeout |-> Opt(options, "throwOnTimeout", TRUE)]

\* The record r with key set to val.
With(r, key, val) == [k \in DOMAIN r \cup {key} |-> IF k = key THEN val ELSE r[k]]

\* Every record of S, with key missing or set to a value of V.
Optional(S, key, V) == S \cup {With(r, key, v) : r \in S, v \in V}

(***************************************************************************)
(* One poll of _waitForSelectorAttempt: the body of the while loop, lines  *)
(* 70-94.  The candidates are tried in order; a poll yields the filtered   *)
(* elements of the first candidate for which that list is not empty, with  *)
(* the candidate's position, or NoMatch.                                   *)
(***************************************************************************)
NoMatch == [found |-> FALSE, selector |-> 0, elements |-> <<>>]

\* Line 73 raises for a selector the CSS engine cannot parse.
QueryRaises(selector) == selector \in Malformed

\* Lines 72-74.
QueryElements(dom, selector, cfg) ==
    IF cfg.multiple THEN querySelectorAll(dom, selector)
    ELSE querySelectorFirst(dom, selector)

\* Lines 78-85: the visibility filter, then the enabled filter.
FilterElements(dom, elements, cfg) ==
    LET validElements ==
            IF cfg.visible
            THEN FilterSeq(elements, {el \in 1..Len(dom) : isElementVisible(dom, el)})
            ELSE elements
    IN  IF cfg.enabled
        THEN FilterSeq(validElements, {el \in 1..Len(dom) : isElementEnabled(dom, el)})
        ELSE validElements

RECURSIVE PollFrom(_, _, _, _)
\* An invalid selector ending the poll instead of being skipped.
CatchAbortsPoll(dom, selectors, cfg, i) == NoMatch

\* Lines 91-93: the catch of the per-selector try logs and goes on with the
\* next candidate.
CatchInvalidSelector(dom, selectors, cfg, i) == PollFrom(dom, selectors, cfg, i + 1)

PollFrom(dom, selectors, cfg, i) ==
    IF i > Len(selectors) THEN NoMatch
    ELSE IF QueryRaises(selectors[i]) THEN CatchInvalidSelector(dom, selectors, cfg, i)
    ELSE LET elements == QueryElements(dom, selectors[i], cfg)
             enabledElements == FilterElements(dom, elements, cfg)
         IN  IF Len(elements) > 0 /\ Len(enabledElements) > 0
             THEN [found |-> TRUE, selector |-> i, elements |-> enabledElements]
             ELSE PollFrom(dom, selectors, cfg, i + 1)

PollSelectors(dom, selectors, cfg) == PollFrom(dom, selectors, cfg, 1)

\* Line 69: the attempt goes on polling while this holds.
WithinTimeout(elapsed, timeout) == elapsed < timeout

\* The retry loop stopping one attempt short.
MoreAttemptsOffByOne(n, retries) == n < retries

\* Line 38: the retry loop makes another attempt while this holds.
MoreAttempts(n, retries) == n <= retries

\* Line 44: what waitForSelector returns for a successful attempt.
ReturnValue(cfg, result) ==
    IF cfg.multiple
    THEN [tag |-> "array", elements |-> result.elements, selector |-> result.selector]
    ELSE [tag |-> "element", elements |-> <<result.elements[1]>>,
          selector |-> result.selector]

\* Line 59 (and line 52): the explicit not-found value.
ReturnNull == [tag |-> "null", elements |-> <<>>, selector |-> 0]

(***************************************************************************)
(* The calls of waitForSelector the model makes.  Three families of        *)
(* inputs: every tree and selector list up to the bounds with the filters  *)
(* and `multiple` varied and a single short attempt; trees one node larger *)
(* whose nodes are enabled and match one candidate each, under the default *)
(* filters; and a page that changes while the call sleeps, with timeout,   *)
(* interval, retries and throwOnTimeout varied.                            *)
(***************************************************************************)
PollOptions ==
    Optional(Optional(Optional({[timeout |-> 1, interval |-> 1, retries |-> 1]},
        "visible", {FALSE}), "enabled", {FALSE}), "multiple", {TRUE})

SingleKinds == {k \in NodeKinds : k.en /\ Cardinality(k.sels) = 1}

LargerDoms == [1..(MaxNodes + 1) -> SingleKinds]

LargerOptions == Optional({[timeout |-> 1, interval |-> 1, retries |-> 1]}, "multiple", {TRUE})

TimingOptions ==
    Optional(Optional({[timeout |-> t, interval |-> i] : t \in {1, 2}, i \in {1, 2}},
        "retries", 1..MaxRetries), "throwOnTimeout", BOOLEAN)

TimingDoms == {<<>>, <<[sels |-> {"a"}, vis |-> FALSE, en |-> TRUE]>>}

TimingSelectorLists == {<<"a">>, <<"bad", "a">>}

Pending == [tag |-> "pending", elements |-> <<>>, selector |-> 0]

\* waitForSelector has been called: lines 23-36 have run.
WaitStart(dom, selectors, options, mutations) ==
    /\ context = dom
    /\ selectorArray = selectors
    /\ config = MakeConfig(options)
    /\ mutationsLeft = mutations
    /\ attempt = 1
    /\ startTime = 0
    /\ clock = 0
    /\ wakeAt = 0
    /\ pc = "attempt"
    /\ outcome = Pending
    /\ attemptsStarted = 0
    /\ lastAttemptEnd = 0
    /\ polled = [dom |-> <<>>, result |-> NoMatch]

WaitInit ==
    \/ \E d \in Doms, s \in SelectorLists, o \in PollOptions : WaitStart(d, s, o, 0)
    \/ \E d \in LargerDoms, s \in SelectorLists, o \in LargerOptions : WaitStart(d, s, o, 0)
    \/ \E d \in TimingDoms, s \in TimingSelectorLists, o \in TimingOptions :
           WaitStart(d, s, o, MaxMutations)

\* Lines 38-40 and 67: the retry loop enters _waitForSelectorAttempt.
EnterAttempt ==
    /\ pc = "attempt"
    /\ MoreAttempts(attempt, config.retries)
    /\ startTime' = clock
    /\ attemptsStarted' = attemptsStarted + 1
    /\ pc' = "poll"
    /\ UNCHANGED <<context, selectorArray, config, attempt, clock, wakeAt, outcome,
                   mutationsLeft, lastAttemptEnd, polled>>

\* Lines 38 and 59: the retry loop is over; waitForSelector returns null.
RetriesExhausted ==
    /\ pc = "attempt"
    /\ ~MoreAttempts(attempt, config.retries)
    /\ outcome' = ReturnNull
    /\ pc' = "done"
    /\ UNCHANGED <<context, selectorArray, config, attempt, startTime, clock, wakeAt,
                   mutationsLeft, attemptsStarted, lastAttemptEnd, polled>>

\* Lines 69-90, 40-44: a poll finds elements; the attempt returns them and
\* waitForSelector returns them (or the first) to its caller.
PollFound ==
    /\ pc = "poll"
    /\ WithinTimeout(clock - startTime, config.timeout)
    /\ LET result == PollSelectors(context, selectorArray, config)
       IN  /\ result.found
           /\ outcome' = ReturnValue(config, result)
           /\ polled' = [dom |-> context, result |-> result]
    /\ pc' = "done"
    /\ UNCHANGED <<context, selectorArray, config, attempt, startTime, clock, wakeAt,
                   mutationsLeft, attemptsStarted, lastAttemptEnd>>

\* Lines 69-96: a poll finds nothing; the attempt sleeps for config.interval.
PollMiss ==
    /\ pc = "poll"
    /\ WithinTimeout(clock - startTime, config.timeout)
    /\ LET result == PollSelectors(context, selectorArray, config)
       IN  /\ ~result.found
           /\ polled' = [dom |-> context, result |-> result]
    /\ wakeAt' = clock + config.interval
    /\ pc' = "sleep"
    /\ UNCHANGED <<context, selectorArray, config, attempt, startTime, clock, outcome,
                   mutationsLeft, attemptsStarted, lastAttemptEnd>>

\* Lines 69, 99, 40-41, 38: the attempt's time is up; it returns null, which
\* is not an exception, so the catch of lines 46-56 (with its backoff sleep
\* and its throw) is passed over and the for loop goes to its next round.
AttemptTimedOut ==
    /\ pc = "poll"
    /\ ~WithinTimeout(clock - startTime, config.timeout)
    /\ attempt' = attempt + 1
    /\ lastAttemptEnd' = clock
    /\ pc' = "attempt"
    /\ UNCHANGED <<context, selectorArray, config, startTime, clock, wakeAt, outcome,
                   mutationsLeft, attemptsStarted, polled>>

\* sleep (lines 563-565): the timer fires when due, or a little late.
Wake ==
    /\ pc = "sleep"
    /\ \E late \in 0..MaxSlack : clock' = wakeAt + late
    /\ pc' = "poll"
    /\ UNCHANGED <<context, selectorArray, config, attempt, startTime, wakeAt, outcome,
                   mutationsLeft, attemptsStarted, lastAttemptEnd, polled>>

\* The trees one change of the page away from dom: a node shown or hidden,
\* enabled or disabled, a node appended, the last node removed.
MutationsOf(dom) ==
    {[dom EXCEPT ![i].vis = ~dom[i].vis] : i \in 1..Len(dom)}
    \cup {[dom EXCEPT ![i].en = ~dom[i].en] : i \in 1..Len(dom)}
    \cup (IF Len(dom) < MaxNodes
          THEN {Append(dom, [sels |-> {"a"}, vis |-> TRUE, en |-> TRUE])}
          ELSE {})
    \cup (IF Len(dom) > 0 THEN {SubSeq(dom, 1, Len(dom) - 1)} ELSE {})

\* The page changes the tree while waitForSelector is suspended.
DomMutate ==
    /\ pc = "sleep"
    /\ mutationsLeft > 0
    /\ context' \in MutationsOf(context)
    /\ mutationsLeft' = mutationsLeft - 1
    /\ UNCHANGED <<selectorArray, config, attempt, startTime, clock, wakeAt, pc, outcome,
                   attemptsStarted, lastAttemptEnd, polled>>

(***************************************************************************)
(* Properties of waitForSelector.                                          *)
(***************************************************************************)
Found == pc = "done" /\ outcome.tag \in {"element", "array"}
NotFound == pc = "done" /\ outcome.tag \notin {"element", "array"}

\* A node passes the filters the configuration asks for.
Qualifies(dom, el, cfg) ==
    /\ cfg.visible => dom[el].vis
    /\ cfg.enabled => dom[el].en

\* The matches of a selector in the tree that pass the filters, in document order.
QualifyingMatches(dom, selector, cfg) ==
    FilterSeq(Handles(dom),
              {el \in 1..Len(dom) : selector \in dom[el].sels /\ Qualifies(dom, el, cfg)})

\* C1: when no candidate ever has a qualifying match, waitForSelector ends by
\* raising if throwOnTimeout is true (the default) and by returning null if
\* it is false.
C1_TimeoutRaisesOrReturnsNull ==
    NotFound =>
        IF config.throwOnTimeout THEN outcome.tag = "raised" ELSE outcome.tag = "null"

\* C2: a call that finds nothing ends after exactly `retries` attempts, each
\* of which polled until at least `timeout` had elapsed, so that at least
\* timeout * retries has elapsed in all.
C2_ExactlyRetriesAttempts ==
    /\ NotFound =>
           /\ attemptsStarted = config.retries
           /\ clock >= config.timeout * config.retries
    /\ (pc = "attempt" /\ attempt > 1) => lastAttemptEnd - startTime >= config.timeout

C2_Witness ==
    /\ NotFound
    /\ config.retries >= 2
    /\ attemptsStarted = config.retries
    /\ clock > config.timeout * config.retries

\* C3: attempt k+1 starts no earlier than interval * k after the unsuccessful
\* attempt k ended (linear backoff).
C3_LinearBackoff ==
    (pc \in {"poll", "sleep"} /\ attempt > 1) =>
        startTime - lastAttemptEnd >= config.interval * (attempt - 1)

\* C4: the first candidate with a qualifying match in the tree wins: the
\* returned elements all match one candidate, and they are never elements
\* of a later candidate only when an earlier one has a qualifying match.
C4_FirstQualifyingSelectorWins ==
    Found =>
        LET dom == polled.dom
            m == outcome.selector
            returned == {outcome.elements[k] : k \in 1..Len(outcome.elements)}
        IN  /\ \A el \in returned : selectorArray[m] \in dom[el].sels
            /\ \A i \in 1..(m - 1) :
                   QualifyingMatches(dom, selectorArray[i], config) # <<>>
                       => \A el \in returned : selectorArray[i] \in dom[el].sels

\* C5: with multiple=true the result is every qualifying match of the winning
\* selector, in document order; with multiple=false it is that selector's first
\* qualifying match, which a non-qualifying match earlier in the document does
\* not hide (so a poll comes out empty only if no candidate has a qualifying
\* match).
C5_ReturnsQualifyingMatches ==
    /\ Found =>
           LET all == QualifyingMatches(polled.dom, selectorArray[outcome.selector], config)
           IN  /\ all # <<>>
               /\ outcome.elements = IF config.multiple THEN all ELSE <<Head(all)>>
               /\ outcome.tag = IF config.multiple THEN "array" ELSE "element"
    /\ ~polled.result.found =>
           \A i \in 1..Len(selectorArray) :
               QualifyingMatches(polled.dom, selectorArray[i], config) = <<>>

\* What a poll finds once the malformed candidates count as matching nothing:
\* the filtered lookup of the first well-formed candidate for which it is not
\* empty.
LookupOf(dom, selector, cfg) == FilterElements(dom, QueryElements(dom, selector, cfg), cfg)

Answering(dom, selectors, cfg) ==
    {i \in 1..Len(selectors) :
        selectors[i] \in WellFormed /\ LookupOf(dom, selectors[i], cfg) # <<>>}

UrlString(wrap, form, protocol, host, segs, slash, search, hash, mime) ==
    [wrap |-> wrap, form |-> form, protocol |-> protocol, host |-> host, segs |-> segs,
     slash |-> slash, search |-> search, hash |-> hash, mime |-> mime]

NullUrl == UrlString("none", "null", "", "", <<>>, FALSE, <<>>, "", "")
EmptyString == UrlString("none", "empty", "", "", <<>>, FALSE, <<>>, "", "")

Seg(name, ext) == [name |-> name, ext |-> ext]

AbsUrl(protocol, host, segs) ==
    UrlString("none", "abs", protocol, host, segs, FALSE, <<>>, "", "")
ProtocolRelative(host, segs) ==
    UrlString("none", "protorel", "", host, segs, FALSE, <<>>, "", "")
RelativeUrl(segs) == UrlString("none", "rel", "", "", segs, FALSE, <<>>, "", "")
DataUrl(mime) == UrlString("none", "data", "data:", "", <<>>, FALSE, <<>>, "", mime)
Quoted(u) == [u EXCEPT !.wrap = "quote"]

\* window.location of the page the helpers run in.
Location ==
    UrlString("none", "abs", "https:", "site.example",
              <<Seg("shop", ""), Seg("index", "html")>>, FALSE, <<>>, "", "")

\* String.trim and the replace of line 298 together leave the bare text.
CleanUrl(url) == [url EXCEPT !.wrap = "none"]

\* new URL(...).href of an absolute URL: the root path is "/".
ParseAbsolute(u) ==
    IF u.segs = <<>> THEN [u EXCEPT !.form = "abs", !.slash = TRUE]
    ELSE [u EXCEPT !.form = "abs"]

\* new URL(cleanUrl, window.location.href).href (line 312): a relative path
\* replaces the last segment of the page's path; the empty string gives the
\* page's own URL without its fragment.
ResolveRelative(u, location) ==
    IF u.form = "empty" THEN [location EXCEPT !.hash = ""]
    ELSE ParseAbsolute(
             [u EXCEPT !.protocol = location.protocol,
                       !.host = location.host,
                       !.segs = SubSeq(location.segs, 1, Len(location.segs) - 1) \o u.segs])

\* Array.prototype.sort on the query keys, which the model numbers in
\* their lexicographic order.
RECURSIVE InsertSorted(_, _)
InsertSorted(k, sorted) ==
    IF sorted = <<>> THEN <<k>>
    ELSE IF k < Head(sorted) THEN <<k>> \o sorted
         ELSE <<Head(sorted)>> \o InsertSorted(k, Tail(sorted))

RECURSIVE SortKeys(_)
SortKeys(keys) ==
    IF keys = <<>> THEN <<>> ELSE InsertSorted(Head(keys), SortKeys(Tail(keys)))

\* URLSearchParams.get(key): the value of the key's first occurrence.
ParamsGet(search, key) ==
    LET first == CHOOSE i \in 1..Len(search) :
                     /\ search[i][1] = key
                     /\ \A j \in 1..(i - 1) : search[j][1] # key
    IN  search[first][2]

\* Lines 327-332: one parameter per key occurrence, in sorted key order, each
\* with the value params.get(key) gives.
SortedParams(search) ==
    LET keys == SortKeys([i \in 1..Len(search) |-> search[i][1]])
    IN  [i \in 1..Len(keys) |-> <<keys[i], ParamsGet(search, keys[i])>>]

\* Every trailing slash of the path removed.
SliceAllTrailingSlashes(u) ==
    LET kept == {k \in 1..Len(u.segs) : \E j \in k..Len(u.segs) : u.segs[j] # Seg("", "")}
    IN  IF kept = {} THEN [u EXCEPT !.segs = <<>>, !.slash = TRUE]
        ELSE [u EXCEPT !.segs = SubSeq(u.segs, 1, Cardinality(kept)), !.slash = FALSE]

\* Line 344: urlObj.pathname = urlObj.pathname.slice(0, -1) on a path that
\* ends in a slash: the last character goes.  After an empty last segment
\* the path still ends in the slash before it.
SliceTrailingSlash(u) ==
    IF u.segs[Len(u.segs)] = Seg("", "")
    THEN [u EXCEPT !.segs = SubSeq(u.segs, 1, Len(u.segs) - 1)]
    ELSE [u EXCEPT !.slash = FALSE]

\* Lines 318-343: the optional rewrites of the parsed URL.
ApplyOptions(u, options) ==
    LET a == IF Opt(options, "forceHttps", FALSE) /\ u.protocol = "http:"
             THEN [u EXCEPT !.protocol = "https:"] ELSE u
        b == IF Opt(options, "removeQueryParams", FALSE) THEN [a EXCEPT !.search = <<>>]
             ELSE IF Opt(options, "sortQueryParams", FALSE)
                  THEN [a EXCEPT !.search = SortedParams(a.search)]
                  ELSE a
        c == IF Opt(options, "removeFragment", FALSE) THEN [b EXCEPT !.hash = ""] ELSE b
    IN  IF Opt(options, "removeTrailingSlash", FALSE) /\ c.slash /\ c.segs # <<>>
        THEN SliceTrailingSlash(c)
        ELSE c

\* The scheme http: put before //host/path whatever the page's scheme.
ExpandWithHttp(cleanUrl, location) == [cleanUrl EXCEPT !.protocol = "http:"]

\* Line 307: window.location.protocol + cleanUrl.
ExpandProtocolRelative(cleanUrl, location) ==
    [cleanUrl EXCEPT !.protocol = location.protocol]

\* normalizeUrl (lines 290-350).
normalizeUrl(url, options, location) ==
    IF url.form \in {"null", "empty"} /\ url.wrap = "none" THEN NullUrl
    ELSE LET cleanUrl == CleanUrl(url)
         IN  IF cleanUrl.form = "data"
             THEN IF Opt(options, "allowDataUrls", TRUE) THEN cleanUrl ELSE NullUrl
             ELSE IF cleanUrl.form = "invalid" THEN NullUrl
             ELSE LET absolute ==
                          IF cleanUrl.form = "protorel"
                          THEN ParseAbsolute(ExpandProtocolRelative(cleanUrl, location))
                          ELSE IF cleanUrl.form = "abs" THEN ParseAbsolute(cleanUrl)
                          ELSE ResolveRelative(cleanUrl, location)
                  IN  ApplyOptions(absolute, options)

\* The default of the allowedFormats and formats parameters (lines 125, 375).
DefaultFormats == {"jpg", "jpeg", "png", "gif", "webp", "svg"}

\* String.toLowerCase on the extensions the model uses.
ToLowerCase(ext) == IF ext = "PNG" THEN "png" ELSE IF ext = "JPG" THEN "jpg" ELSE ext

\* pathname.split('.').pop(): the text after the last dot of the path.  When
\* the last segment has no dot this is not an extension but a piece of the
\* path holding a slash, which is no format: "(path)" stands for it.
LastDotPiece(u) ==
    IF u.form = "data" THEN "(path)"
    ELSE IF u.segs # <<>> /\ ~u.slash /\ u.segs[Len(u.segs)].ext # ""
         THEN u.segs[Len(u.segs)].ext
         ELSE "(path)"

\* getImageFormat (lines 613-621).
getImageFormat(url) == ToLowerCase(LastDotPiece(url))

\* Lines 396-402: the path patterns /images?/ /img/ /photos?/ /gallery/
\* /media/ name a directory of the path; the last pattern finds a known
\* extension at the end of the URL or right before its query.
ImageDirectories == {"image", "images", "img", "photo", "photos", "gallery", "media"}

MatchesImagePattern(u) ==
    \/ \E i \in 1..Len(u.segs) :
           /\ u.segs[i].ext = "" /\ u.segs[i].name \in ImageDirectories
           /\ (i < Len(u.segs) \/ u.slash)
    \/ /\ u.segs # <<>> /\ ~u.slash
       /\ ToLowerCase(u.segs[Len(u.segs)].ext) \in DefaultFormats
       /\ (u.search # <<>> \/ u.hash = "")

\* isValidImageUrl (lines 375-409).
isValidImageUrl(url, allowedFormats) ==
    IF url.form = "null" THEN FALSE
    ELSE IF url.protocol = "data:" THEN url.mime = "image"
    ELSE \/ ToLowerCase(LastDotPiece(url)) \in allowedFormats
         \/ MatchesImagePattern(url)

(***************************************************************************)
(* The page gatherImages runs on.  A node has its tag, the URL strings of  *)
(* the attributes the gatherer reads (EmptyString for one that is not      *)
(* set), the url(...) references of its computed background-image (none:   *)
(* the empty sequence), whether its style attribute names                  *)
(* background-image, the container it sits in, and its rendered size.      *)
(***************************************************************************)
Element(tagName, src, dataSrc, dataLazySrc, dataOriginal, dataUrl, backgroundImage, inlineBackground, dataBackground, dataImage, container, size) ==
    [tagName |-> tagName, src |-> src, dataSrc |-> dataSrc, dataLazySrc |-> dataLazySrc,
     dataOriginal |-> dataOriginal, dataUrl |-> dataUrl,
     backgroundImage |-> backgroundImage, inlineBackground |-> inlineBackground,
     dataBackground |-> dataBackground, dataImage |-> dataImage, container |-> container,
     rect |-> [width |-> size, height |-> size]]

Present(attribute) == attribute # EmptyString

\* The selectors gatherImages looks for when the caller names none
\* (lines 113-122), and "*" for a caller who asks for every node.
DefaultSelectors ==
    <<"img[src]", "img[data-src]", "img[data-lazy-src]", "[style*=background-image]",
      "picture img", "figure img", ".image img", "[data-background]">>

Matches(node, selector) ==
    CASE selector = "img[src]" -> node.tagName = "IMG" /\ Present(node.src)
      [] selector = "img[data-src]" -> node.tagName = "IMG" /\ Present(node.dataSrc)
      [] selector = "img[data-lazy-src]" -> node.tagName = "IMG" /\ Present(node.dataLazySrc)
      [] selector = "[style*=background-image]" -> node.inlineBackground
      [] selector = "picture img" -> node.tagName = "IMG" /\ node.container = "picture"
      [] selector = "figure img" -> node.tagName = "IMG" /\ node.container = "figure"
      [] selector = ".image img" -> node.tagName = "IMG" /\ node.container = "image"
      [] selector = "[data-background]" -> Present(node.dataBackground)
      [] selector = "*" -> TRUE
      [] OTHER -> FALSE

\* document.querySelectorAll(selector): the matching nodes in document order.
documentQuerySelectorAll(doc, selector) ==
    FilterSeq(Handles(doc), {el \in 1..Len(doc) : Matches(doc[el], selector)})

\* a || b for URL strings: the first that is not empty.
OrElse(a, b) == IF Present(a) THEN a ELSE b

\* Lines 187-202 of extractImageFromElement: the URL string taken from a node.
\* An IMG gives src, then the lazy-load attributes, then data-url; any other
\* node gives the first url(...) of its computed background-image, then
\* data-background, then data-image.
SourceUrl(node) ==
    IF node.tagName = "IMG"
    THEN OrElse(node.src, OrElse(node.dataSrc, OrElse(node.dataLazySrc,
             OrElse(node.dataOriginal, node.dataUrl))))
    ELSE OrElse(IF node.backgroundImage # <<>> THEN node.backgroundImage[1] ELSE EmptyString,
                OrElse(node.dataBackground, node.dataImage))

\* Lines 204-210: the normalized URL the node yields, or NullUrl when it has
\* no URL or the URL is no image URL and the extraction returns null.
ExtractedUrl(node, cfg) ==
    LET url == SourceUrl(node)
        normalizedUrl == normalizeUrl(url, <<>>, Location)
    IN  IF ~Present(url) THEN NullUrl
        ELSE IF normalizedUrl = NullUrl \/ ~isValidImageUrl(normalizedUrl, cfg.formats)
             THEN NullUrl
             ELSE normalizedUrl

NoSize == [width |-> 0, height |-> 0]

\* Lines 217-230: the record extractImageFromElement builds.  It carries no
\* type; `displayed` is the node's rendered size.
ImageData(el, node, normalizedUrl, dimensions) ==
    [url |-> normalizedUrl, element |-> el, type |-> Undef,
     natural |-> dimensions, displayed |-> node.rect]

\* Lines 261-268: the record extractBackgroundImages builds.  It has no
\* displayed size.
BackgroundData(el, normalizedUrl, dimensions) ==
    [url |-> normalizedUrl, element |-> el, type |-> "background",
     natural |-> dimensions, displayed |-> NoSize]

\* a || b || 0 for sizes.
FirstNonZero(a, b) == IF a # 0 THEN a ELSE b

\* validateImageData (lines 629-648).
validateImageData(imageData, cfg) ==
    /\ imageData.url # NullUrl
    /\ (cfg.minWidth # 0 \/ cfg.minHeight # 0) =>
           LET width == FirstNonZero(imageData.natural.width, imageData.displayed.width)
               height == FirstNonZero(imageData.natural.height, imageData.displayed.height)
           IN  /\ cfg.minWidth # 0 => ~(width < cfg.minWidth)
               /\ cfg.minHeight # 0 => ~(height < cfg.minHeight)
    /\ getImageFormat(imageData.url) \in cfg.formats

\* Lines 112-132: gatherImages' configuration.
MakeGatherConfig(options) ==
    [selectors          |-> Opt(options, "selectors", DefaultSelectors),
     minWidth           |-> Opt(options, "minWidth", 0),
     minHeight          |-> Opt(options, "minHeight", 0),
     formats            |-> Opt(options, "formats", DefaultFormats),
     deduplicateUrls    |-> Opt(options, "deduplicateUrls", TRUE),
     includeBackgrounds |-> Opt(options, "includeBackgrounds", TRUE)]

(***************************************************************************)
(* gatherImages as a state machine.  The page does not change during a     *)
(* call, so the nodes each pass visits are known from the page: the        *)
(* selector pass (lines 138-157) visits, selector by selector, the matches *)
(* of each in document order; the background sweep (lines 246-275) visits  *)
(* every url(...) reference of every node with a background image.  The    *)
(* calls suspend at the dimension lookup, getImageDimensions.              *)
(***************************************************************************)
RECURSIVE SelectorWorkFrom(_, _, _)
SelectorWorkFrom(doc, selectors, s) ==
    IF s > Len(selectors) THEN <<>>
    ELSE documentQuerySelectorAll(doc, selectors[s]) \o SelectorWorkFrom(doc, selectors, s + 1)

SelectorWork(doc, cfg) == SelectorWorkFrom(doc, cfg.selectors, 1)

\* extractUrlsFromCssValue (lines 357-367) on each node's background-image.
RECURSIVE SweepWorkFrom(_, _)
SweepWorkFrom(doc, el) ==
    IF el > Len(doc) THEN <<>>
    ELSE [k \in 1..Len(doc[el].backgroundImage) |-> [element |-> el, index |-> k]]
         \o SweepWorkFrom(doc, el + 1)

SweepWork(doc) == SweepWorkFrom(doc, 1)

\* The duplicate check skipped.
AlwaysNew(cfg, seen, normalizedUrl) == TRUE

\* Lines 148 and 164: a record is added unless its URL was seen.
IsNew(cfg, seen, normalizedUrl) == ~cfg.deduplicateUrls \/ normalizedUrl \notin seen

\* Lines 162-168: the records of the sweep go through the duplicate check
\* into the results.  state is [results, seen, encountered].
RECURSIVE MergeBackgrounds(_, _, _)
MergeBackgrounds(bgImages, state, cfg) ==
    IF bgImages = <<>> THEN state
    ELSE LET bgImage == Head(bgImages)
             normalizedUrl == normalizeUrl(bgImage.url, <<>>, Location)
             new == IsNew(cfg, state.seen, normalizedUrl)
         IN  MergeBackgrounds(Tail(bgImages),
                 [results |-> IF new THEN Append(state.results, bgImage) ELSE state.results,
                  seen |-> IF new THEN state.seen \cup {normalizedUrl} ELSE state.seen,
                  encountered |-> Append(state.encountered, bgImage)],
                 cfg)

\* What the dimension lookup reports for a resource that loads: b.png is a
\* small image, every other resource a large one.
NaturalSize(url) ==
    IF url.segs # <<>> /\ url.segs[Len(url.segs)].name = "b"
    THEN [width |-> 10, height |-> 10]
    ELSE [width |-> 100, height |-> 100]

\* Lines 143 and 187-210: the extraction finds no usable URL on the node and
\* returns null; the loop goes to the next node.
ExtractNothing ==
    /\ gatherPc = "selectors"
    /\ cursor <= Len(SelectorWork(document, gatherConfig))
    /\ \E el \in {SelectorWork(document, gatherConfig)[cursor]} :
           /\ ExtractedUrl(document[el], gatherConfig) = NullUrl
           /\ extracted' = [element |-> el, url |-> SourceUrl(document[el])]
    /\ cursor' = cursor + 1
    /\ UNCHANGED <<document, gatherConfig, gatherPc, pendingUrl, imageResults, seenUrls,
                   backgroundImages, encountered, lookups>>

\* Lines 143 and 187-214: the extraction has a valid image URL and looks up
\* its dimensions.
ExtractStartProbe ==
    /\ gatherPc = "selectors"
    /\ cursor <= Len(SelectorWork(document, gatherConfig))
    /\ \E el \in {SelectorWork(document, gatherConfig)[cursor]} :
           /\ ExtractedUrl(document[el], gatherConfig) # NullUrl
           /\ pendingUrl' = ExtractedUrl(document[el], gatherConfig)
           /\ extracted' = [element |-> el, url |-> SourceUrl(document[el])]
    /\ gatherPc' = "probe"
    /\ UNCHANGED <<document, gatherConfig, cursor, imageResults, seenUrls,
                   backgroundImages, encountered, lookups>>

\* Lines 214-232 and 145-152: the lookup has settled with `dimensions`; the
\* record is built, validated and, unless its URL was seen, added.
FinishExtraction(dimensions) ==
    LET el == SelectorWork(document, gatherConfig)[cursor]
        imageData == ImageData(el, document[el], pendingUrl, dimensions)
        normalizedUrl == normalizeUrl(imageData.url, <<>>, Location)
        valid == validateImageData(imageData, gatherConfig)
        new == valid /\ IsNew(gatherConfig, seenUrls, normalizedUrl)
    IN  /\ gatherPc = "probe"
        /\ imageResults' = IF new THEN Append(imageResults, imageData) ELSE imageResults
        /\ seenUrls' = IF new THEN seenUrls \cup {normalizedUrl} ELSE seenUrls
        /\ encountered' = IF valid THEN Append(encountered, imageData) ELSE encountered
        /\ cursor' = cursor + 1
        /\ pendingUrl' = NullUrl
        /\ gatherPc' = "selectors"
        /\ UNCHANGED <<document, gatherConfig, backgroundImages, extracted>>

\* A settled lookup, for the history: the pass and position it belongs to,
\* the URL looked up and whether the resource failed to load.
Lookup(pass, failed) ==
    [pass |-> pass, cursor |-> cursor, url |-> pendingUrl, failed |-> failed]

\* getImageDimensions (lines 572-579) resolves with the natural size.
ProbeLoaded ==
    /\ FinishExtraction(NaturalSize(pendingUrl))
    /\ lookups' = Append(lookups, Lookup("selectors", FALSE))

\* The record is given up when the resource fails to load.
FailureDropsRecord ==
    /\ gatherPc = "probe"
    /\ cursor' = cursor + 1
    /\ pendingUrl' = NullUrl
    /\ gatherPc' = "selectors"
    /\ lookups' = Append(lookups, Lookup("selectors", TRUE))
    /\ UNCHANGED <<document, gatherConfig, imageResults, seenUrls, backgroundImages,
                   extracted, encountered>>

\* getImageDimensions rejects; the catch of line 214 gives 0 x 0.
ProbeFailed ==
    /\ FinishExtraction(NoSize)
    /\ lookups' = Append(lookups, Lookup("selectors", TRUE))

\* Lines 157-160 and 172: the selector pass is over.
SelectorsDone ==
    /\ gatherPc = "selectors"
    /\ cursor > Len(SelectorWork(document, gatherConfig))
    /\ IF gatherConfig.includeBackgrounds
       THEN gatherPc' = "sweep" /\ cursor' = 1
       ELSE gatherPc' = "done" /\ cursor' = cursor
    /\ UNCHANGED <<document, gatherConfig, pendingUrl, imageResults, seenUrls,
                   backgroundImages, extracted, encountered, lookups>>

\* The URL of the reference the sweep is at, normalized (line 257).
SweepUrl ==
    LET work == SweepWork(document)[cursor]
    IN  normalizeUrl(document[work.element].backgroundImage[work.index], <<>>, Location)

\* Lines 256-258: the reference is no valid image URL and is passed over.
SweepNothing ==
    /\ gatherPc = "sweep"
    /\ cursor <= Len(SweepWork(document))
    /\ ~(SweepUrl # NullUrl /\ isValidImageUrl(SweepUrl, gatherConfig.formats))
    /\ cursor' = cursor + 1
    /\ UNCHANGED <<document, gatherConfig, gatherPc, pendingUrl, imageResults, seenUrls,
                   backgroundImages, extracted, encountered, lookups>>

\* Lines 256-259: the reference is a valid image URL; its dimensions are
\* looked up.
SweepStartProbe ==
    /\ gatherPc = "sweep"
    /\ cursor <= Len(SweepWork(document))
    /\ SweepUrl # NullUrl /\ isValidImageUrl(SweepUrl, gatherConfig.formats)
    /\ pendingUrl' = SweepUrl
    /\ gatherPc' = "sweepProbe"
    /\ UNCHANGED <<document, gatherConfig, cursor, imageResults, seenUrls,
                   backgroundImages, extracted, encountered, lookups>>

\* Lines 259-268: the lookup has settled; the record joins backgroundImages.
FinishSweepItem(dimensions) ==
    /\ gatherPc = "sweepProbe"
    /\ backgroundImages' =
           Append(backgroundImages,
                  BackgroundData(SweepWork(document)[cursor].element, pendingUrl, dimensions))
    /\ cursor' = cursor + 1
    /\ pendingUrl' = NullUrl
    /\ gatherPc' = "sweep"
    /\ UNCHANGED <<document, gatherConfig, imageResults, seenUrls, extracted, encountered>>

SweepProbeLoaded ==
    /\ FinishSweepItem(NaturalSize(pendingUrl))
    /\ lookups' = Append(lookups, Lookup("sweep", FALSE))

\* getImageDimensions rejects; the catch of line 259 gives 0 x 0.
SweepProbeFailed ==
    /\ FinishSweepItem(NoSize)
    /\ lookups' = Append(lookups, Lookup("sweep", TRUE))

\* Lines 277 and 161-172: the sweep is over; its records are merged into the
\* results and gatherImages returns.
SweepDone ==
    /\ gatherPc = "sweep"
    /\ cursor > Len(SweepWork(document))
    /\ LET merged == MergeBackgrounds(backgroundImages,
                         [results |-> imageResults, seen |-> seenUrls,
                          encountered |-> encountered],
                         gatherConfig)
       IN  /\ imageResults' = merged.results
           /\ seenUrls' = merged.seen
           /\ encountered' = merged.encountered
    /\ gatherPc' = "done"
    /\ UNCHANGED <<document, gatherConfig, cursor, pendingUrl, backgroundImages, extracted,
                   lookups>>

(***************************************************************************)
(* The calls of gatherImages the model makes.  Two families of pages: a    *)
(* single node carrying any combination of the eight URL sources the       *)
(* extraction reads, each with a URL of its own; and pages of up to        *)
(* MaxPageNodes nodes of the kinds below, whose URLs coincide, fail        *)
(* validation or have no extension, under varied thresholds, formats and   *)
(* duplicate handling.                                                     *)
(***************************************************************************)
Cdn(name, ext) == AbsUrl("https:", "cdn.example", <<Seg(name, ext)>>)

Maybe(url) == {EmptyString, url}

SourceNodes ==
    {Element(tag, src, dataSrc, lazy, original, dataUrl,
             IF bg THEN <<Cdn("background", "jpg")>> ELSE <<>>, bg,
             dataBackground, dataImage, "none", 60) :
        tag \in {"IMG", "DIV"},
        src \in Maybe(Cdn("src", "jpg")),
        dataSrc \in Maybe(Cdn("data-src", "jpg")),
        lazy \in Maybe(Cdn("data-lazy-src", "jpg")),
        original \in Maybe(Cdn("data-original", "jpg")),
        dataUrl \in Maybe(Cdn("data-url", "jpg")),
        bg \in BOOLEAN,
        dataBackground \in Maybe(Cdn("data-background", "jpg")),
        dataImage \in Maybe(Cdn("data-image", "jpg"))}

Img(src, dataSrc, container, size) ==
    Element("IMG", src, dataSrc, EmptyString, EmptyString, EmptyString, <<>>, FALSE,
            EmptyString, EmptyString, container, size)

Div(backgroundImage, inlineBackground, dataBackground) ==
    Element("DIV", EmptyString, EmptyString, EmptyString, EmptyString, EmptyString,
            backgroundImage, inlineBackground, dataBackground, EmptyString, "none", 60)

\* The node of Scenario D: style="background-image: url('b.png')", no src.
ScenarioDNode == Div(<<Quoted(RelativeUrl(<<Seg("b", "png")>>))>>, TRUE, EmptyString)

PageKinds ==
    {Img(Cdn("a", "jpg"), EmptyString, "none", 60),
     Img(ProtocolRelative("cdn.example", <<Seg("a", "jpg")>>), EmptyString, "figure", 0),
     Img(EmptyString, RelativeUrl(<<Seg("b", "png")>>), "none", 60),
     Div(<<RelativeUrl(<<Seg("doc", "exe")>>)>>, TRUE, EmptyString),
     ScenarioDNode,
     Div(<<AbsUrl("https:", "cdn.example", <<Seg("images", ""), Seg("photo", "")>>),
           Cdn("a", "jpg")>>, FALSE, EmptyString),
     Div(<<>>, FALSE, Cdn("a", "jpg"))}

Pages == SeqsUpTo(PageKinds, MaxPageNodes)

PageOptions ==
    {<<>>,
     [minWidth |-> 50, minHeight |-> 50],
     [formats |-> {"jpg"}],
     [deduplicateUrls |-> FALSE],
     [includeBackgrounds |-> FALSE]}

\* gatherImages has been called: lines 112-135 have run.
GatherStart(page, options) ==
    /\ document = page
    /\ gatherConfig = MakeGatherConfig(options)
    /\ gatherPc = "selectors"
    /\ cursor = 1
    /\ pendingUrl = NullUrl
    /\ imageResults = <<>>
    /\ seenUrls = {}
    /\ backgroundImages = <<>>
    /\ extracted = [element |-> 0, url |-> EmptyString]
    /\ encountered = <<>>
    /\ lookups = <<>>

GatherInit ==
    \/ \E n \in SourceNodes, o \in {<<>>, [selectors |-> <<"*">>]} : GatherStart(<<n>>, o)
    \/ \E p \in Pages, o \in PageOptions : GatherStart(p, o)

\* No waitForSelector call is under way.
WaitIdle ==
    /\ context = <<>>
    /\ selectorArray = <<>>
    /\ config = MakeConfig(<<>>)
    /\ mutationsLeft = 0
    /\ attempt = 1
    /\ startTime = 0
    /\ clock = 0
    /\ wakeAt = 0
    /\ pc = "idle"
    /\ outcome = Pending
    /\ attemptsStarted = 0
    /\ lastAttemptEnd = 0
    /\ polled = [dom |-> <<>>, result |-> NoMatch]

\* No gatherImages call is under way.
GatherIdle ==
    /\ document = <<>>
    /\ gatherConfig = MakeGatherConfig(<<>>)
    /\ gatherPc = "idle"
    /\ cursor = 1
    /\ pendingUrl = NullUrl
    /\ imageResults = <<>>
    /\ seenUrls = {}
    /\ backgroundImages = <<>>
    /\ extracted = [element |-> 0, url |-> EmptyString]
    /\ encountered = <<>>
    /\ lookups = <<>>

(***************************************************************************)
(* Properties of gatherImages.                                             *)
(***************************************************************************)
GatherDone == gatherPc = "done"

\* The position in `encountered` of the first record with this URL.
FirstEncounter(url) ==
    CHOOSE k \in 1..Len(encountered) :
        /\ encountered[k].url = url
        /\ \A earlier \in 1..(k - 1) : encountered[earlier].url # url

\* C7: with deduplication on, no two records of the result have the same
\* normalized URL, and once gatherImages has returned every URL that reached
\* the duplicate check has its record, which is the first one encountered in
\* processing order (selector pass first, then the background sweep).
C7_OneRecordPerUrlFirstWins ==
    gatherConfig.deduplicateUrls =>
        /\ \A i, j \in 1..Len(imageResults) :
               i # j => imageResults[i].url # imageResults[j].url
        /\ GatherDone =>
               /\ \A i \in 1..Len(imageResults) :
                      imageResults[i] = encountered[FirstEncounter(imageResults[i].url)]
               /\ \A k \in 1..Len(encountered) :
                      \E i \in 1..Len(imageResults) : imageResults[i].url = encountered[k].url

\* A record from the selector pass and one from the sweep had the same URL,
\* and so had two from the selector pass; one record was returned for it.
C7_Witness ==
    /\ GatherDone
    /\ gatherConfig.deduplicateUrls
    /\ Len(imageResults) >= 1
    /\ \E j, k \in 1..Len(encountered) :
           /\ j < k
           /\ encountered[j].url = encountered[k].url
           /\ encountered[j].type = Undef
           /\ encountered[k].type = "background"
    /\ \E j, k \in 1..Len(encountered) :
           /\ j < k
           /\ encountered[j].url = encountered[k].url
           /\ encountered[j].element # encountered[k].element
           /\ encountered[k].type = Undef

\* The size validateImageData compares with the thresholds.
EffectiveWidth(record) == FirstNonZero(record.natural.width, record.displayed.width)
EffectiveHeight(record) == FirstNonZero(record.natural.height, record.displayed.height)

\* C8: every returned record, from the selector pass or from the background
\* sweep, meets the minWidth/minHeight thresholds that are set and has a
\* format of the allowed set.
C8_ResultsPassValidation ==
    GatherDone =>
        \A i \in 1..Len(imageResults) :
            /\ gatherConfig.minWidth # 0 =>
                   EffectiveWidth(imageResults[i]) >= gatherConfig.minWidth
            /\ gatherConfig.minHeight # 0 =>
                   EffectiveHeight(imageResults[i]) >= gatherConfig.minHeight
            /\ getImageFormat(imageResults[i].url) \in gatherConfig.formats

\* C9 (Scenario D): over a page whose only node is a non-image element with
\* inline style background-image: url('b.png') and no src, gatherImages
\* returns exactly one record, tagged as a CSS background (type
\* "background"), whose URL ends in /b.png.
C9_ScenarioD ==
    (GatherDone /\ document = <<ScenarioDNode>> /\ gatherConfig = MakeGatherConfig(<<>>)) =>
        /\ Len(imageResults) = 1
        /\ imageResults[1].type = "background"
        /\ imageResults[1].url.segs # <<>>
        /\ imageResults[1].url.segs[Len(imageResults[1].url.segs)] = Seg("b", "png")

\* The URL strings of a node by source kind, in the priority order of the
\* specification: the direct URL attribute, the lazy-load attributes, the
\* computed background-image, the free-form data attributes.
SourcesByPriority(node) ==
    <<{node.src},
      {node.dataSrc, node.dataLazySrc, node.dataOriginal},
      IF node.backgroundImage # <<>> THEN {node.backgroundImage[1]} ELSE {EmptyString},
      {node.dataUrl, node.dataBackground, node.dataImage}>>

HasSource(node, kind) == \E url \in SourcesByPriority(node)[kind] : Present(url)

\* C10: the URL the extraction takes from a node, image or not, is one of
\* the highest-priority source kind the node has.
C10_HighestPrioritySource ==
    extracted.element # 0 =>
        LET node == document[extracted.element]
            kinds == {kind \in 1..4 : HasSource(node, kind)}
        IN  IF kinds = {} THEN ~Present(extracted.url)
            ELSE LET best == CHOOSE kind \in kinds : \A other \in kinds : kind <= other
                 IN  /\ Present(extracted.url)
                     /\ extracted.url \in SourcesByPriority(node)[best]

(***************************************************************************)
(* normalizeUrl as a function of its arguments and the page's location.    *)
(* The calls the model makes: URLs of every form whose path ends in up to  *)
(* MaxTrailingSlashes slashes, under every combination of the five         *)
(* rewriting options, on a page loaded over https and on one loaded over   *)
(* http; URLs with up to MaxParams query parameters; and the inputs that   *)
(* are empty, decorated, data: URIs or unparsable.  The result of a call   *)
(* is normalized once more under the same options.                         *)
(***************************************************************************)
\* A path of the segments `stem` followed by n slashes.
PathOf(stem, n) ==
    [segs |-> stem \o [k \in 1..(n - 1) |-> Seg("", "")], slash |-> n > 0]

Paths ==
    {PathOf(stem, n) : stem \in {<<>>, <<Seg("a", "jpg")>>, <<Seg("dir", "")>>},
                       n \in 0..MaxTrailingSlashes}

OnPath(u, path) == [u EXCEPT !.segs = path.segs, !.slash = path.slash]

Queries == SeqsUpTo({<<1, "x">>, <<2, "y">>, <<1, "z">>}, MaxParams)

PathInputs ==
    {[OnPath(u, path) EXCEPT !.hash = hash] :
        u \in {AbsUrl("http:", "cdn.example.com", <<>>),
               AbsUrl("https:", "cdn.example.com", <<>>),
               ProtocolRelative("cdn.example.com", <<>>),
               RelativeUrl(<<>>)},
        path \in {q \in Paths : q.segs # <<>>},
        hash \in {"", "top"}}
    \cup {OnPath(u, PathOf(<<>>, 1)) :
             u \in {AbsUrl("http:", "cdn.example.com", <<>>),
                    ProtocolRelative("cdn.example.com", <<>>)}}

QueryInputs ==
    {[AbsUrl("https:", "cdn.example.com", <<Seg("a", "jpg")>>)
         EXCEPT !.search = query, !.hash = hash] :
        query \in Queries, hash \in {"", "top"}}

OtherInputs ==
    {NullUrl, EmptyString,
     [EmptyString EXCEPT !.wrap = "space"], [EmptyString EXCEPT !.wrap = "quote"],
     DataUrl("image"),
     UrlString("none", "invalid", "", "", <<>>, FALSE, <<>>, "", ""),
     Quoted(AbsUrl("http:", "cdn.example.com", <<Seg("a", "jpg")>>)),
     [ProtocolRelative("cdn.example.com", <<Seg("a", "jpg")>>) EXCEPT !.wrap = "space"]}

RewriteOptions ==
    Optional(Optional(Optional(Optional(Optional({<<>>},
        "forceHttps", {TRUE}), "removeQueryParams", {TRUE}), "sortQueryParams", {TRUE}),
        "removeFragment", {TRUE}), "removeTrailingSlash", {TRUE})

Locations ==
    {Location, [Location EXCEPT !.protocol = "http:"]}

\* normalizeUrl is about to be called.
UrlStart(url, options, location) ==
    /\ urlInput = url
    /\ urlOptions = options
    /\ urlLocation = location
    /\ urlPc = "call"
    /\ urlResult = NullUrl
    /\ urlAgain = NullUrl

UrlInit ==
    \/ \E u \in PathInputs, o \in RewriteOptions, l \in Locations : UrlStart(u, o, l)
    \/ \E u \in QueryInputs, o \in RewriteOptions : UrlStart(u, o, Location)
    \/ \E u \in OtherInputs, o \in {<<>>, [forceHttps |-> TRUE], [allowDataUrls |-> FALSE]},
          l \in Locations : UrlStart(u, o, l)

\* No normalizeUrl call is being followed.
UrlIdle ==
    /\ urlInput = NullUrl
    /\ urlOptions = <<>>
    /\ urlLocation = Location
    /\ urlPc = "idle"
    /\ urlResult = NullUrl
    /\ urlAgain = NullUrl

\* normalizeUrl(url, options) returns.
NormalizeOnce ==
    /\ urlPc = "call"
    /\ urlResult' = normalizeUrl(urlInput, urlOptions, urlLocation)
    /\ urlPc' = "returned"
    /\ UNCHANGED <<urlInput, urlOptions, urlLocation, urlAgain>>

\* The URL it returned is normalized again.
NormalizeAgain ==
    /\ urlPc = "returned"
    /\ urlResult # NullUrl
    /\ urlAgain' = normalizeUrl(urlResult, urlOptions, urlLocation)
    /\ urlPc' = "renormalized"
    /\ UNCHANGED <<urlInput, urlOptions, urlLocation, urlResult>>

(***************************************************************************)
(* injector.js: gallery detection.  The page is what the fourteen signals  *)
(* of galleryIndicators (lines 32-142) read.  Its IMG elements share one   *)
(* rendered size and either all or none carry a lazy-loading attribute     *)
(* and a .webp source; its texts are the words they hold; its class names  *)
(* come from a small vocabulary.  window.globalPerformanceMonitor is not   *)
(* part of this code: measureFunc is the fallback of line 29, which just   *)
(* runs the function.                                                      *)
(***************************************************************************)
\* Thresholds of the signals.
MinImageSide == 50
SignificantImageCount == 8
LazyElementCount == 5
ContainerCount == 6
ModernPatternCount == 3
ModernImageCount == 3
\* galleryIndicators.length
IndicatorCount == 14

\* The alternatives of the patterns of lines 53 and 54 and the words of
\* lines 89-92 and 134-137.
TitleKeywords ==
    {"gallery", "portfolio", "photo", "photos", "image", "images", "album", "collection",
     "catalog", "artwork", "media", "browse", "search", "stock", "pic", "visual",
     "exhibit", "showcase", "board", "stream", "feed"}

PathKeywords == TitleKeywords \ {"artwork", "stock"}

ProfessionalIndicators ==
    {"stock", "premium", "royalty", "license", "download", "resolution", "watermark",
     "preview", "comp", "editorial", "commercial"}

SocialPatterns ==
    {"instagram", "pinterest", "flickr", "behance", "dribbble", "unsplash", "pexels",
     "shutterstock", "getty", "alamy", "artstation", "deviantart", "tumblr", "reddit"}

\* The class names of the vocabulary that each selector list matches:
\* lines 58-61 ([class*="gallery"], [class*="photo"], [class*="grid"], ...),
\* lines 71-72 (.product-grid, ...), line 77 (.photo-grid, ...) and
\* lines 99-100 (.pagination, ...).
StructureClasses == {"gallery", "product-grid", "photo-grid"}
CommerceClasses == {"product-grid"}
SocialGridClasses == {"photo-grid"}
PaginationClasses == {"pagination"}

\* The words of window.location.href and of window.location.pathname.
HrefWords(loc) == {loc.host} \cup {loc.pathname[k] : k \in 1..Len(loc.pathname)}
PathWords(loc) == {loc.pathname[k] : k \in 1..Len(loc.pathname)}

\* Lines 35-49: the elements the first signal counts.  An IMG counts when
\* its rendered width and height both exceed 50; a picture source always; an
\* element with an inline background-image when the image is a URL.
SignificantImages(doc) ==
    (IF doc.imgWidth > MinImageSide /\ doc.imgHeight > MinImageSide
     THEN doc.imgCount ELSE 0)
    + doc.sourceCount + doc.backgroundCount

\* Signal k raises: line 93 reads document.body.textContent, and
\* document.body is null on a page without a body.
IndicatorRaises(doc, loc, k) == k = 9 /\ ~doc.hasBody

\* What signal k returns when it does not raise.
Indicator(doc, loc, k) ==
    CASE k = 1 -> SignificantImages(doc) >= SignificantImageCount
      [] k = 2 -> doc.title \cap TitleKeywords # {}
      [] k = 3 -> PathWords(loc) \cap PathKeywords # {}
      [] k = 4 -> doc.classes \cap StructureClasses # {}
      [] k = 5 -> doc.dataGallery
      [] k = 6 -> doc.classes \cap CommerceClasses # {}
      [] k = 7 -> doc.classes \cap SocialGridClasses # {}
      [] k = 8 -> (IF doc.lazy THEN doc.imgCount ELSE 0) >= LazyElementCount
      [] k = 9 -> (doc.title \cup doc.bodyWords) \cap ProfessionalIndicators # {}
      [] k = 10 -> doc.classes \cap PaginationClasses # {}
      [] k = 11 -> doc.figureCount >= ContainerCount
      [] k = 12 -> doc.rowCount >= ModernPatternCount
      [] k = 13 -> (IF doc.webp THEN doc.imgCount ELSE 0) >= ModernImageCount
      [] k = 14 -> (HrefWords(loc) \cup doc.title) \cap SocialPatterns # {}

RECURSIVE SomeIndicatorFrom(_, _, _)

\* The exception of a signal leaves detectGalleryPage.
PropagateIndicatorError(doc, loc, k) == "raised"

\* Lines 147-149: the catch returns false and some() goes on with the next
\* signal.
CatchIndicatorError(doc, loc, k) == SomeIndicatorFrom(doc, loc, k + 1)

\* Lines 144-150: galleryIndicators.some(...), from signal k on.
SomeIndicatorFrom(doc, loc, k) ==
    IF k > IndicatorCount THEN "false"
    ELSE IF IndicatorRaises(doc, loc, k) THEN CatchIndicatorError(doc, loc, k)
    ELSE IF Indicator(doc, loc, k) THEN "true"
    ELSE SomeIndicatorFrom(doc, loc, k + 1)

\* The cache is consulted only for a positive verdict.
CacheHitWhenTrue(cache) == cache = <<TRUE>>

\* Line 26: galleryDetectionCache !== null.
CacheHit(cache) == cache # <<>>

\* The identity of a page: its host and the first segment of its path
\* (SelectorCache.getSiteKey, lines 187-189).
getSiteKey(loc) ==
    <<loc.host, IF loc.pathname # <<>> THEN loc.pathname[1] ELSE "root">>

\* detectGalleryPage (lines 25-156).
detectGalleryPage ==
    /\ Len(detectCalls) < MaxCalls
    /\ IF CacheHit(galleryDetectionCache)
       THEN /\ detectCalls' = Append(detectCalls,
                                [outcome |-> IF galleryDetectionCache[1] THEN "true" ELSE "false",
                                 evaluated |-> FALSE, key |-> getSiteKey(pageLocation),
                                 changesLeft |-> changesLeft])
            /\ UNCHANGED <<isGalleryPage, galleryDetectionCache, evaluatedOn>>
       ELSE LET result == SomeIndicatorFrom(pageDocument, pageLocation, 1)
            IN  /\ detectCalls' = Append(detectCalls,
                                    [outcome |-> result, evaluated |-> TRUE,
                                     key |-> getSiteKey(pageLocation),
                                     changesLeft |-> changesLeft])
                /\ evaluatedOn' = <<[document |-> pageDocument, location |-> pageLocation]>>
                /\ IF result = "raised"
                   THEN UNCHANGED <<isGalleryPage, galleryDetectionCache>>
                   ELSE /\ isGalleryPage' = (result = "true")
                        /\ galleryDetectionCache' = <<result = "true">>
    /\ UNCHANGED <<pageDocument, pageLocation, changesLeft>>

\* The page of Scenario B: three images and nothing a signal looks for.
PlainPage ==
    [title |-> {"home"}, hasBody |-> TRUE, bodyWords |-> {"welcome"},
     imgCount |-> 3, imgWidth |-> 200, imgHeight |-> 100, lazy |-> FALSE, webp |-> FALSE,
     sourceCount |-> 0, backgroundCount |-> 0, figureCount |-> 0, rowCount |-> 0,
     classes |-> {}, dataGallery |-> FALSE]

\* Pages that differ in their images only: Scenario A and its neighbours.
ImagePages ==
    {[PlainPage EXCEPT !.imgCount = n, !.imgWidth = w, !.imgHeight = h,
                       !.sourceCount = sources, !.backgroundCount = backgrounds] :
        n \in 0..MaxImages, w \in {MinImageSide, MinImageSide + 1},
        h \in {MinImageSide, MinImageSide + 1},
        sources \in 0..1, backgrounds \in 0..1}

\* One thing a signal looks for, put on a page.
Features ==
    {<<"title", {"gallery"}>>, <<"title", {"premium"}>>, <<"title", {"pinterest"}>>,
     <<"classes", {"gallery"}>>, <<"classes", {"product-grid"}>>,
     <<"classes", {"photo-grid"}>>, <<"classes", {"pagination"}>>,
     <<"dataGallery", TRUE>>, <<"lazy", TRUE>>, <<"webp", TRUE>>,
     <<"imgCount", LazyElementCount>>,
     <<"figureCount", ContainerCount>>, <<"figureCount", ContainerCount - 1>>,
     <<"rowCount", ModernPatternCount>>,
     <<"bodyWords", {"download"}>>, <<"hasBody", FALSE>>}

FeaturePages == {With(With(PlainPage, f[1], f[2]), g[1], g[2]) : f, g \in Features}

HomeLocation == [host |-> "site.example", pathname |-> <<"home">>]

PageLocations ==
    {HomeLocation,
     [host |-> "site.example", pathname |-> <<>>],
     [host |-> "site.example", pathname |-> <<"home", "about">>],
     [host |-> "site.example", pathname |-> <<"gallery", "summer">>],
     [host |-> "pinterest.example", pathname |-> <<"home">>]}

\* The content a page may change to while it is loaded.
ChangedPages ==
    {PlainPage,
     [PlainPage EXCEPT !.classes = {"gallery"}],
     [PlainPage EXCEPT !.imgCount = MaxImages]}

\* The injector has started in a freshly loaded page (lines 13-22).
DetectStart(doc, loc) ==
    /\ pageDocument = doc
    /\ pageLocation = loc
    /\ isGalleryPage = FALSE
    /\ galleryDetectionCache = <<>>
    /\ changesLeft = MaxPageChanges
    /\ detectCalls = <<>>
    /\ evaluatedOn = <<>>

DetectInit ==
    \/ \E doc \in ImagePages \cup FeaturePages : DetectStart(doc, HomeLocation)
    \/ \E loc \in PageLocations : DetectStart(PlainPage, loc)

\* No page is being followed.
DetectIdle ==
    /\ pageDocument = PlainPage
    /\ pageLocation = HomeLocation
    /\ isGalleryPage = FALSE
    /\ galleryDetectionCache = <<>>
    /\ changesLeft = 0
    /\ detectCalls = <<>>
    /\ evaluatedOn = <<>>

\* The page changes its content (scripts add and remove elements).
ContentChange ==
    /\ changesLeft > 0
    /\ pageDocument' \in ChangedPages \ {pageDocument}
    /\ changesLeft' = changesLeft - 1
    /\ UNCHANGED <<pageLocation, isGalleryPage, galleryDetectionCache, detectCalls,
                   evaluatedOn>>

\* The page moves to another address without a new page load
\* (history.pushState in a single-page application): the injector and its
\* variables stay.
Navigate ==
    /\ changesLeft > 0
    /\ pageLocation' \in PageLocations \ {pageLocation}
    /\ changesLeft' = changesLeft - 1
    /\ UNCHANGED <<pageDocument, isGalleryPage, galleryDetectionCache, detectCalls,
                   evaluatedOn>>

(***************************************************************************)
(* Numbers.  The scores of smartElementDetection are IEEE 754 doubles: the *)
(* weights 0.1, 0.2 and 0.3 are not representable, every += rounds to the  *)
(* nearest double (ties to even), and the sum of the same weights differs  *)
(* with the order they are added in (0.7 + 0.1 is 0.7999999999999999, 0.6  *)
(* + 0.2 is 0.8).  A double x in [0, 2) is held as the integer x * 2^56 in *)
(* two limbs of 28 bits: every double of 2^-4 or more is such an integer.  *)
(***************************************************************************)
Limb == 16384 * 16384

Double(hi, lo) == [hi |-> hi, lo |-> lo]

\* The spacing of the doubles around hi * 2^28, in units of 2^-56: 53
\* significant bits.
Ulp(hi) ==
    IF hi >= 2 * Limb THEN 32
    ELSE IF hi >= Limb THEN 16
    ELSE IF hi >= Limb \div 2 THEN 8
    ELSE IF hi >= Limb \div 4 THEN 4
    ELSE IF hi >= Limb \div 8 THEN 2
    ELSE 1

\* a + b of two non-negative doubles: the exact sum, rounded to the nearest
\* double, a tie going to the even significand.
FloatAdd(a, b) ==
    LET lo   == (a.lo + b.lo) % Limb
        hi   == a.hi + b.hi + ((a.lo + b.lo) \div Limb)
        q    == Ulp(hi)
        r    == lo % q
        down == lo - r
        up   == 2 * r > q \/ (2 * r = q /\ (down \div q) % 2 = 1)
        lo2  == IF up THEN down + q ELSE down
    IN  Double(hi + (lo2 \div Limb), lo2 % Limb)

\* a >= b; also the sign of a - b, which is exact for two doubles.
FloatGeq(a, b) == a.hi > b.hi \/ (a.hi = b.hi /\ a.lo >= b.lo)

Zero == Double(0, 0)
\* 0.1 = 0x1.999999999999ap-4, 0.2 = 0x1.999999999999ap-3,
\* 0.3 = 0x1.3333333333333p-2, 0.7 = 0x1.6666666666666p-1.
PointOne == Double(26843545, 161061274)
PointTwo == Double(53687091, 53687092)
PointThree == Double(80530636, 214748364)
PointSeven == Double(187904819, 53687088)

(***************************************************************************)
(* smartElementDetection (robust-helpers.js:724-814).  A node of the page  *)
(* records what the function asks of it: whether isElementVisible holds,   *)
(* whether querySelector finds an image, a video or a link in it, its      *)
(* textContent ("none": empty or blank; "plain"; "term": holding one of    *)
(* the image terms), its className ("none": the empty string; "plain";     *)
(* "term"; "animated": the SVGAnimatedString object an SVG element has for *)
(* className, which is truthy and has no toLowerCase), whether it has an   *)
(* id and a data- attribute.  The bounding rectangle copied into a         *)
(* candidate (line 804) is left out: nothing is computed from it.          *)
(***************************************************************************)
ScoreNode(vis, image, video, link, text, className, id, data) ==
    [vis |-> vis, image |-> image, video |-> video, link |-> link, text |-> text,
     className |-> className, id |-> id, data |-> data]

DefaultMinScore == PointSeven

\* Lines 725-730: the defaults first and ...criteria last, so a key the
\* caller passed wins, a minScore of 0 included.
MakeCriteria(crit) ==
    [minScore         |-> Opt(crit, "minScore", DefaultMinScore),
     includeInvisible |-> Opt(crit, "includeInvisible", FALSE),
     contentAnalysis  |-> Opt(crit, "contentAnalysis", TRUE)]

\* Lines 741-785: the feature flags of a node.
NodeFeatures(node) ==
    [hasImage     |-> node.image,
     hasVideo     |-> node.video,
     hasLink      |-> node.link,
     hasText      |-> node.text # "none",
     hasClass     |-> node.className # "none",
     hasId        |-> node.id,
     hasDataAttrs |-> node.data]

\* Line 794: some image term occurs in the text or in the class names.
HasImageTerm(node) == node.text = "term" \/ node.className = "term"

\* Line 790: className.toLowerCase() of an SVG element is not a function.
AnalysisRaises(node, cfg) == cfg.contentAnalysis /\ node.className = "animated"

Bump(score, applies, weight) == IF applies THEN FloatAdd(score, weight) ELSE score

\* Lines 740-797: the score, accumulated in the order of the code.
NodeScore(node, cfg) ==
    LET f  == NodeFeatures(node)
        s1 == Bump(Zero, f.hasImage, PointThree)
        s2 == Bump(s1, f.hasVideo, PointTwo)
        s3 == Bump(s2, f.hasLink, PointTwo)
        s4 == Bump(s3, f.hasText, PointOne)
        s5 == Bump(s4, f.hasClass, PointOne)
        s6 == Bump(s5, f.hasId, PointOne)
        s7 == Bump(s6, f.hasDataAttrs, PointOne)
    IN  Bump(s7, cfg.contentAnalysis /\ HasImageTerm(node), PointTwo)

\* Line 736: the nodes the loop does not skip.
Considered(nodes, cfg, k) == cfg.includeInvisible \/ isElementVisible(nodes, k)

\* Line 799.
MeetsMinScore(score, minScore) == FloatGeq(score, minScore)

Candidate(k, node, cfg) == [element |-> k, score |-> NodeScore(node, cfg), features |-> NodeFeatures(node)]

\* Lines 735-807: the loop over the nodes from position k on, having found
\* the candidates in found; the call raises at the first considered node
\* whose content analysis raises.
RECURSIVE ScanElements(_, _, _, _)
ScanElements(nodes, cfg, k, found) ==
    IF k > Len(nodes) THEN [raised |-> FALSE, candidates |-> found]
    ELSE IF ~Considered(nodes, cfg, k) THEN ScanElements(nodes, cfg, k + 1, found)
    ELSE IF AnalysisRaises(nodes[k], cfg) THEN [raised |-> TRUE, candidates |-> found]
    ELSE IF MeetsMinScore(NodeScore(nodes[k], cfg), cfg.minScore)
         THEN ScanElements(nodes, cfg, k + 1, Append(found, Candidate(k, nodes[k], cfg)))
         ELSE ScanElements(nodes, cfg, k + 1, found)

\* The comparator of line 810, (a, b) => b.score - a.score: negative (a
\* before b) exactly when a's score is the larger.
ComesBefore(a, b) == FloatGeq(a.score, b.score) /\ a.score # b.score

\* Array.prototype.sort is stable: c goes after every candidate of sorted
\* that the comparator does not put behind it.
InsertByScore(sorted, c) ==
    LET ahead == {j \in 1..Len(sorted) : ~ComesBefore(c, sorted[j])}
        n     == IF ahead = {} THEN 0 ELSE CHOOSE j \in ahead : \A i \in ahead : i <= j
    IN  SubSeq(sorted, 1, n) \o <<c>> \o SubSeq(sorted, n + 1, Len(sorted))

RECURSIVE SortFrom(_, _, _)
SortFrom(list, k, sorted) ==
    IF k > Len(list) THEN sorted ELSE SortFrom(list, k + 1, InsertByScore(sorted, list[k]))

\* Line 810.
SortByScore(list) == SortFrom(list, 1, <<>>)

smartElementDetection ==
    /\ scorePc = "call"
    /\ \E scan \in {ScanElements(allElements, MakeCriteria(criteria), 1, <<>>)} :
           IF scan.raised
           THEN scorePc' = "raised" /\ candidates' = <<>>
           ELSE scorePc' = "returned" /\ candidates' = SortByScore(scan.candidates)
    /\ UNCHANGED <<allElements, criteria>>

(***************************************************************************)
(* The pages and criteria smartElementDetection is run on: every kind of   *)
(* node by itself, and pages of up to MaxScoreNodes nodes of a few kinds   *)
(* whose scores tie, differ in the last bit, or fall on either side of the *)
(* thresholds.                                                             *)
(***************************************************************************)
Texts == {"none", "plain", "term"}

ClassNames == {"none", "plain", "term", "animated"}

\* 0.6, 0.8 (the integration guide's) and 1.
PointSix == Double(161061273, 161061272)
PointEight == Double(214748364, 214748368)
One == Double(Limb, 0)

MinScores == {Zero, PointSix, PointEight, One}

CriteriaInputs ==
    {m @@ i @@ c : m \in {<<>>} \cup {[minScore |-> s] : s \in MinScores},
                   i \in {<<>>, [includeInvisible |-> TRUE]},
                   c \in {<<>>, [contentAnalysis |-> FALSE]}}

ScoreNodeKinds ==
    {ScoreNode(TRUE, TRUE, TRUE, TRUE, "plain", "none", FALSE, FALSE),
     ScoreNode(TRUE, TRUE, TRUE, FALSE, "term", "none", FALSE, FALSE),
     ScoreNode(TRUE, TRUE, FALSE, TRUE, "plain", "plain", FALSE, FALSE),
     ScoreNode(FALSE, TRUE, FALSE, TRUE, "plain", "plain", TRUE, FALSE),
     ScoreNode(TRUE, TRUE, TRUE, TRUE, "term", "term", TRUE, TRUE),
     ScoreNode(TRUE, FALSE, FALSE, FALSE, "plain", "none", FALSE, FALSE),
     ScoreNode(TRUE, TRUE, FALSE, FALSE, "none", "animated", FALSE, FALSE)}

ScoreStart(nodes, crit) ==
    /\ allElements = nodes
    /\ criteria = crit
    /\ scorePc = "call"
    /\ candidates = <<>>

ScoreInit ==
    \E crit \in CriteriaInputs :
        \/ \E vis, image, video, link, id, data \in BOOLEAN :
           \E text \in Texts, className \in ClassNames :
               ScoreStart(<<ScoreNode(vis, image, video, link, text, className, id, data)>>, crit)
        \/ \E n \in 2..MaxScoreNodes :
           \E nodes \in [1..n -> ScoreNodeKinds] : ScoreStart(nodes, crit)

ScoreIdle ==
    /\ allElements = <<>>
    /\ criteria = <<>>
    /\ scorePc = "idle"
    /\ candidates = <<>>

(***************************************************************************)
(* batchProcess (robust-helpers.js:916-951).  An item records what the     *)
(* processor does when invoked on it: "value", it returns; "error", it     *)
(* raises an Error; "nothing", it raises a reason that is no object (throw *)
(* undefined, Promise.reject()).                                           *)
(***************************************************************************)
DefaultBatchSize == 5
DefaultDelayBetweenBatches == 100

Item(id, does) == [id |-> id, does |-> does]

\* Lines 917-922: the defaults first and ...options last, so a key the
\* caller passed wins, a 0 included.
MakeBatchConfig(options) ==
    [batchSize           |-> Opt(options, "batchSize", DefaultBatchSize),
     delayBetweenBatches |-> Opt(options, "delayBetweenBatches", DefaultDelayBetweenBatches),
     continueOnError     |-> Opt(options, "continueOnError", TRUE)]

Unstarted == [state |-> "unstarted"]
Running == [state |-> "running"]
Fulfilled(value) == [state |-> "fulfilled", value |-> value]
Rejected(reason) == [state |-> "rejected", reason |-> reason]

NoError == [kind |-> "none"]
WorkerError(item) == [kind |-> "Error", message |-> "failed", of |-> item.id]
NoReason == [kind |-> "undefined"]
\* Reading .message of a reason that is no object.
TypeError == [kind |-> "TypeError"]

\* processor(element, index): how the invocation settles.
Processed(item, index) ==
    CASE item.does = "value"   -> Fulfilled([item |-> item.id, index |-> index])
      [] item.does = "error"   -> Rejected(WorkerError(item))
      [] item.does = "nothing" -> Rejected(NoReason)

ConvertAlways(settled, item, index, cfg) ==
    Fulfilled([error |-> settled.reason.kind, element |-> item, index |-> index])

\* Lines 931-938: the catch around the invocation.
CatchWorkerError(settled, item, index, cfg) ==
    IF cfg.continueOnError
    THEN IF settled.reason.kind = "Error"
         THEN Fulfilled([error |-> settled.reason.message, element |-> item, index |-> index])
         ELSE Rejected(TypeError)
    ELSE Rejected(settled.reason)

\* Lines 928-939: how the promise of one item settles.
Wrapped(item, index, cfg) ==
    LET settled == Processed(item, index)
    IN  IF settled.state = "fulfilled" THEN settled
        ELSE CatchWorkerError(settled, item, index, cfg)

\* elements.slice(i, i + batchSize), as positions 1..Len(elements).
Batch(els, i, cfg) == {p \in 1..Len(els) : i < p /\ p <= i + cfg.batchSize}

InFlight(promises) == {p \in DOMAIN promises : promises[p] = Running}

IndexInChunk(i, p) == p - i - 1

\* Line 930: the index handed to the processor, i + index.
IndexArgument(i, p) == i + (p - i - 1)

\* Lines 926-941, from the loop test to the await of Promise.all: the loop
\* ends and batchProcess returns, or the processor is invoked on every item
\* of the next chunk, in order, before anything else runs.
EnterLoop(i) ==
    /\ batchI' = i
    /\ IF i < Len(batchElements)
       THEN /\ batchPromises' = [p \in DOMAIN batchPromises |->
                                    IF p \in Batch(batchElements, i, batchConfig)
                                    THEN Running ELSE batchPromises[p]]
            /\ invocations' = invocations \o
                   [k \in 1..Cardinality(Batch(batchElements, i, batchConfig)) |->
                       [position |-> i + k,
                        index    |-> IndexArgument(i, i + k),
                        chunk    |-> i,
                        waited   |-> sinceSettled',
                        busy     |-> InFlight(batchPromises)]]
            /\ batchPc' = "await"
       ELSE /\ batchPc' = "returned"
            /\ UNCHANGED <<batchPromises, invocations>>

\* Lines 916-941: the call, up to its first await.
batchProcess ==
    /\ batchPc = "call"
    /\ sinceSettled' = 0
    /\ EnterLoop(0)
    /\ UNCHANGED <<batchElements, batchConfig, batchResults, batchError, completions>>

\* The invocation on the item at position p settles, and with it the
\* promise of that item; the order among the items in flight is free.
WorkerSettles ==
    /\ \E p \in InFlight(batchPromises) :
           /\ batchPromises' = [batchPromises EXCEPT
               ![p] = Wrapped(batchElements[p], IndexArgument(batchI, p), batchConfig)]
           /\ completions' = Append(completions, p)
    /\ UNCHANGED <<batchElements, batchConfig, batchI, batchPc, batchResults, batchError,
                   sinceSettled, invocations>>

AlwaysDelay(els, i, cfg) == cfg.delayBetweenBatches > 0

\* Line 945.
DelayNeeded(els, i, cfg) == i + cfg.batchSize < Len(els) /\ cfg.delayBetweenBatches > 0

\* Line 942: results.push(...batchResults), the values in the order of the
\* chunk whatever the order the invocations completed in.
PushResults(results, promises, chunk) ==
    results \o [k \in 1..Cardinality(chunk) |->
                   promises[CHOOSE p \in chunk : Cardinality({q \in chunk : q < p}) = k - 1].value]

\* Lines 941-948: Promise.all resolves once every promise of the chunk is
\* fulfilled; the values are pushed, and the call sleeps or goes round the
\* loop.
ChunkDone ==
    /\ batchPc = "await"
    /\ \E chunk \in {Batch(batchElements, batchI, batchConfig)} :
           /\ \A p \in chunk : batchPromises[p].state = "fulfilled"
           /\ batchResults' = PushResults(batchResults, batchPromises, chunk)
    /\ sinceSettled' = 0
    /\ IF DelayNeeded(batchElements, batchI, batchConfig)
       THEN batchPc' = "sleep" /\ UNCHANGED <<batchI, batchPromises, invocations>>
       ELSE EnterLoop(batchI + batchConfig.batchSize)
    /\ UNCHANGED <<batchElements, batchConfig, batchError, completions>>

\* The promises of the chunk that were rejected, in the order they were.
RejectedInOrder(promises, settledOrder, chunk) ==
    SelectSeq(settledOrder, LAMBDA p : p \in chunk /\ promises[p].state = "rejected")

\* Line 941: Promise.all rejects when the first promise of the chunk is
\* rejected, with that promise's reason, and batchProcess raises it; the
\* invocations still in flight go on.
ChunkFailed ==
    /\ batchPc = "await"
    /\ \E failed \in {RejectedInOrder(batchPromises, completions,
                                       Batch(batchElements, batchI, batchConfig))} :
           /\ failed # <<>>
           /\ batchError' = batchPromises[failed[1]].reason
    /\ batchPc' = "raised"
    /\ UNCHANGED <<batchElements, batchConfig, batchI, batchPromises, batchResults,
                   completions, sinceSettled, invocations>>

\* Lines 946, 563-565: the timer of sleep() fires, not before its time.
BatchWake ==
    /\ batchPc = "sleep"
    /\ \E late \in 0..MaxSlack : sinceSettled' = batchConfig.delayBetweenBatches + late
    /\ EnterLoop(batchI + batchConfig.batchSize)
    /\ UNCHANGED <<batchElements, batchConfig, batchResults, batchError, completions>>

(***************************************************************************)
(* The calls of batchProcess: up to MaxItems items, every mix of what the  *)
(* processor does on them, and the options a caller passes or leaves out.  *)
(***************************************************************************)
ItemIds == <<"a", "b", "c", "d", "e", "f">>

Behaviours == {"value", "error", "nothing"}

BatchOptions ==
    {s @@ d @@ c : s \in {<<>>} \cup {[batchSize |-> n] : n \in 0..MaxBatchSize},
                   d \in {<<>>, [delayBetweenBatches |-> 0], [delayBetweenBatches |-> 1]},
                   c \in {<<>>, [continueOnError |-> FALSE]}}

BatchStart(els, options) ==
    /\ batchElements = els
    /\ batchConfig = MakeBatchConfig(options)
    /\ batchI = 0
    /\ batchPc = "call"
    /\ batchPromises = [p \in 1..Len(els) |-> Unstarted]
    /\ batchResults = <<>>
    /\ batchError = NoError
    /\ completions = <<>>
    /\ sinceSettled = 0
    /\ invocations = <<>>

BatchInit ==
    \E n \in 0..MaxItems :
    \E does \in [1..n -> Behaviours] :
    \E options \in BatchOptions :
        BatchStart([p \in 1..n |-> Item(ItemIds[p], does[p])], options)

BatchIdle ==
    /\ batchElements = <<>>
    /\ batchConfig = MakeBatchConfig(<<>>)
    /\ batchI = 0
    /\ batchPc = "idle"
    /\ batchPromises = <<>>
    /\ batchResults = <<>>
    /\ batchError = NoError
    /\ completions = <<>>
    /\ sinceSettled = 0
    /\ invocations = <<>>

(***************************************************************************)
(* SelectorCache (injector.js:159-190).  this.cache is a Map: it iterates  *)
(* its keys in the order they were first set, set() of a key it holds      *)
(* replaces the value and leaves the key where it is, and delete() of the  *)
(* first key makes the next one first.  The Map is the sequence of its     *)
(* entries in that order.  Keys are numbered in the order they are first   *)
(* written; the selectors written are told apart by the number of the      *)
(* write.                                                                  *)
(***************************************************************************)
maxCacheSize == 100

\* Line 168: 5 minutes, in milliseconds.
SelectorTtl == 300000

CacheEntry(key, selectors, timestamp) == [key |-> key, selectors |-> selectors, timestamp |-> timestamp]

\* Map.prototype.get: the entry of key in a one-element set, or the empty
\* set for undefined.
MapGet(map, key) == {map[k] : k \in {j \in 1..Len(map) : map[j].key = key}}

\* Map.prototype.set.
MapSet(map, key, value) ==
    IF \E k \in 1..Len(map) : map[k].key = key
    THEN [k \in 1..Len(map) |-> IF map[k].key = key THEN value ELSE map[k]]
    ELSE Append(map, value)

\* Map.prototype.delete.
MapDelete(map, key) == SelectSeq(map, LAMBDA e : e.key # key)

FreshWithinOrAt(entry, now) == entry.timestamp >= now - SelectorTtl

\* Line 168: cached.timestamp > Date.now() - 300000.
Fresh(entry, now) == entry.timestamp > now - SelectorTtl

FullWhenOver(map) == Len(map) > maxCacheSize

\* Line 175.
Full(map) == Len(map) >= maxCacheSize

\* Lines 175-179: the Map after the eviction, if any.
Evict(map) == IF Full(map) THEN MapDelete(map, map[1].key) ELSE map

NoSelectors == [key |-> 0, write |-> 0]

\* Lines 166-172.
getCachedSelector ==
    /\ \E key \in {0} \cup {selectorCache[k].key : k \in {1, Len(selectorCache)} \cap DOMAIN selectorCache}
                  \cup {cacheWrites[k].key : k \in {1} \cap DOMAIN cacheWrites} :
           lastCall' = [op |-> "get", key |-> key, at |-> cacheClock, evicted |-> <<>>,
                        returned |-> IF \E e \in MapGet(selectorCache, key) : Fresh(e, cacheClock)
                                     THEN (CHOOSE e \in MapGet(selectorCache, key) : TRUE).selectors
                                     ELSE NoSelectors]
    /\ cacheBefore' = selectorCache
    /\ UNCHANGED <<selectorCache, cacheClock, cacheWrites, cacheCallsLeft>>

\* Lines 174-185, for the key and the selectors given.
SetCached(key) ==
    /\ selectorCache' = MapSet(Evict(selectorCache), key,
                               CacheEntry(key, [key |-> key, write |-> Len(cacheWrites) + 1],
                                          cacheClock))
    /\ lastCall' = [op |-> "set", key |-> key, at |-> cacheClock,
                    evicted |-> IF Full(selectorCache) THEN <<selectorCache[1]>> ELSE <<>>,
                    returned |-> NoSelectors]
    /\ cacheWrites' = Append(cacheWrites, [key |-> key, at |-> cacheClock])
    /\ cacheBefore' = selectorCache
    /\ UNCHANGED cacheClock

\* The number of keys written so far.
KeysWritten == Cardinality({cacheWrites[k].key : k \in DOMAIN cacheWrites})

\* The filling: setCachedSelector with a key never written before, until
\* the cache is CacheHeadroom short of its capacity.
Filling == Len(selectorCache) < maxCacheSize - CacheHeadroom /\ cacheCallsLeft = MaxCacheCalls

setCachedSelectorNew ==
    /\ Filling \/ cacheCallsLeft > 0
    /\ cacheCallsLeft' = IF Filling THEN cacheCallsLeft ELSE cacheCallsLeft - 1
    /\ SetCached(KeysWritten + 1)

\* setCachedSelector with a key written before: the first or the last key
\* of the Map, or the first key ever written.
setCachedSelectorAgain ==
    /\ ~Filling
    /\ cacheCallsLeft > 0
    /\ cacheCallsLeft' = cacheCallsLeft - 1
    /\ \E key \in {selectorCache[k].key : k \in {1, Len(selectorCache)} \cap DOMAIN selectorCache}
                  \cup {cacheWrites[k].key : k \in {1} \cap DOMAIN cacheWrites} :
           SetCached(key)

\* Time passes between two calls.
CacheTick ==
    /\ ~Filling
    /\ cacheCallsLeft > 0
    /\ cacheCallsLeft' = cacheCallsLeft - 1
    /\ \E ms \in {1, SelectorTtl - 1} : cacheClock' = cacheClock + ms
    /\ UNCHANGED <<selectorCache, cacheWrites, cacheBefore, lastCall>>

NoCall == [op |-> "none", key |-> 0, at |-> 0, evicted |-> <<>>, returned |-> NoSelectors]

\* Lines 160-164, 192: the cache as constructed.
CacheInit ==
    /\ selectorCache = <<>>
    /\ cacheClock = 0
    /\ cacheWrites = <<>>
    /\ cacheBefore = <<>>
    /\ lastCall = NoCall
    /\ cacheCallsLeft = MaxCacheCalls

CacheIdle ==
    /\ selectorCache = <<>>
    /\ cacheClock = 0
    /\ cacheWrites = <<>>
    /\ cacheBefore = <<>>
    /\ lastCall = NoCall
    /\ cacheCallsLeft = 0

(***************************************************************************)
(* Cancellation.  The caller of waitForSelector, batchProcess and          *)
(* gatherImages has one place to hand over a cancellation signal, the      *)
(* options argument.  batchProcess copies every key of options into its    *)
(* config (line 921) and reads batchSize, delayBetweenBatches and          *)
(* continueOnError of it; sleep (lines 563-565) takes the delay alone.     *)
(* The caller aborts whenever it likes while the call is in progress.      *)
(***************************************************************************)
NotAborted == [invocations |-> 0, results |-> <<>>]

abort ==
    /\ batchPc \in {"await", "sleep"}
    /\ ~abortSignal
    /\ abortSignal' = TRUE
    /\ atAbort' = [invocations |-> Len(invocations), results |-> batchResults]

CancelIdle ==
    /\ abortSignal = FALSE
    /\ atAbort = NotAborted

(***************************************************************************)
(* The Pagination Traverser.  Its code (content/enhanced-pagination-       *)
(* handler.js and content/infinite-scroll-handler.js, which injector.js    *)
(* lines 264-265 and 307-309 load) is not among the sources; the state     *)
(* machine below is the one the specification's section 4.6 describes:     *)
(* Idle -> Extracting -> {AdvancingPage, Scrolling, Done}, looping back to *)
(* Extracting once the new content has settled.  A record is its           *)
(* normalised URL, a number here; the Asset Gatherer returns the records   *)
(* of a round without duplicates, in document order.                       *)
(***************************************************************************)
NoTermination == "none"

NoControl == "none"

Controls == {NoControl, "a.next", "lazy"}

RECURSIVE Ascending(_)
Ascending(S) ==
    IF S = {} THEN <<>>
    ELSE LET least == CHOOSE x \in S : \A y \in S : x <= y
         IN  <<least>> \o Ascending(S \ {least})

SeenNever(record, acc) == FALSE

SeenBefore(record, acc) == \E k \in 1..Len(acc) : acc[k] = record

\* The records of a round that no earlier round has yielded.
NewRecords(yield, acc) == SelectSeq(yield, LAMBDA record : ~SeenBefore(record, acc))

MergeRecords(yield, acc) == acc \o NewRecords(yield, acc)

Terminate(reason) ==
    /\ pagPc' = "Done"
    /\ paginationState' = [paginationState EXCEPT !.terminationReason = reason]

startTraversal ==
    /\ pagPc = "Idle"
    /\ pagPc' = "Extracting"
    /\ paginationState' = [paginationState EXCEPT !.roundIndex = 1]
    /\ UNCHANGED <<accumulated, maxRoundCount, rounds>>

\* One round: run the Asset Gatherer, merge, then look for the way on.
\* The termination conditions are tested in the order they arise in the
\* round: nothing new after the merge, no control after the search for it,
\* the round count before another round would be started.
extractRound ==
    /\ pagPc = "Extracting"
    /\ \E found \in SUBSET (1..MaxRecords) :
       \E control \in Controls :
       \E yield \in {Ascending(found)} :
           /\ accumulated' = MergeRecords(yield, accumulated)
           /\ rounds' = Append(rounds, [yield   |-> found,
                                        new     |-> Len(NewRecords(yield, accumulated)),
                                        settled |-> FALSE])
           /\ IF Len(NewRecords(yield, accumulated)) = 0
              THEN Terminate("no-new-records")
              ELSE IF control = NoControl
              THEN Terminate("no-next-control")
              ELSE IF paginationState.roundIndex >= maxRoundCount
              THEN Terminate("max-rounds")
              ELSE /\ pagPc' = IF control = "lazy" THEN "Scrolling" ELSE "AdvancingPage"
                   /\ paginationState' = [paginationState EXCEPT
                                              !.lastControlSelectorUsed = control]
    /\ UNCHANGED maxRoundCount

\* Advancing the page clicks the control with the actuator's contract: a
\* click that fails ends the traversal, it is not a crash.
advancePage ==
    /\ pagPc = "AdvancingPage"
    /\ \E clicked \in BOOLEAN :
           IF clicked
           THEN /\ pagPc' = "Settling"
                /\ UNCHANGED paginationState
           ELSE Terminate("actuation-failed")
    /\ UNCHANGED <<accumulated, maxRoundCount, rounds>>

scrollForMore ==
    /\ pagPc = "Scrolling"
    /\ pagPc' = "Settling"
    /\ UNCHANGED <<paginationState, accumulated, maxRoundCount, rounds>>

\* The new content has stabilised: the round is complete, the next starts.
contentSettles ==
    /\ pagPc = "Settling"
    /\ rounds' = [rounds EXCEPT ![Len(rounds)].settled = TRUE]
    /\ paginationState' = [paginationState EXCEPT !.roundIndex = @ + 1]
    /\ pagPc' = "Extracting"
    /\ UNCHANGED <<accumulated, maxRoundCount>>

PaginationStart(limit) ==
    /\ pagPc = "Idle"
    /\ paginationState = [roundIndex |-> 0, lastControlSelectorUsed |-> NoControl,
                          terminationReason |-> NoTermination]
    /\ accumulated = <<>>
    /\ maxRoundCount = limit
    /\ rounds = <<>>

PaginationInit == \E limit \in 1..MaxRoundCount : PaginationStart(limit)

PaginationIdle ==
    /\ pagPc = "idle"
    /\ paginationState = [roundIndex |-> 0, lastControlSelectorUsed |-> NoControl,
                          terminationReason |-> NoTermination]
    /\ accumulated = <<>>
    /\ maxRoundCount = 1
    /\ rounds = <<>>

(***************************************************************************)
(* clickElement (robust-helpers.js:454-509).  The node of the element is   *)
(* an HTML element, which has a click() method, or an SVG element, which   *)
(* has none, so that element.click() raises a TypeError on it.  The page   *)
(* may change what isElementVisible and isElementEnabled find whenever the *)
(* call sleeps.                                                            *)
(***************************************************************************)
NullElement == 0

\* Lines 456 and 458.
DefaultClickRetries == 3

DefaultWaitAfterScroll == 300

ClickNode(kind, vis, en) == [kind |-> kind, vis |-> vis, en |-> en]

DefaultStrategies == <<"click", "dispatchEvent", "mouseEvents">>

\* Lines 455-461.
MakeClickConfig(options) ==
    [retries         |-> Opt(options, "retries", DefaultClickRetries),
     scrollIntoView  |-> Opt(options, "scrollIntoView", TRUE),
     waitAfterScroll |-> Opt(options, "waitAfterScroll", DefaultWaitAfterScroll),
     clickStrategies |-> Opt(options, "clickStrategies", DefaultStrategies)]

NoClickResult == [kind |-> "pending"]

ClickReturned(value) == [kind |-> "returned", value |-> value]

\* Lines 480-491: what one strategy does on the node.  A name that is none
\* of the three matches no branch: nothing is dispatched, nothing raised.
RunStrategy(strategy, node) ==
    IF strategy = "click"
    THEN IF node.kind = "html" THEN "activated" ELSE "threw"
    ELSE IF strategy \in {"dispatchEvent", "mouseEvents"}
    THEN "activated"
    ELSE "nothing"

\* Lines 478-499: the strategies in order; the first that does not raise
\* makes clickElement return true.  The result is the strategy that ended
\* the loop, or NoStrategy when every one raised (line 502).
NoStrategy == "none"

RECURSIVE TryStrategies(_, _)
TryStrategies(strategies, node) ==
    IF strategies = <<>> THEN NoStrategy
    ELSE IF RunStrategy(Head(strategies), node) = "threw"
    THEN TryStrategies(Tail(strategies), node)
    ELSE Head(strategies)

VisibleAlone(dom, el) == isElementVisible(dom, el)

\* Line 474.
Clickable(dom, el) == isElementVisible(dom, el) /\ isElementEnabled(dom, el)

\* Lines 500-506: the catch of an attempt.
AttemptFailed(tryNo) ==
    IF tryNo = clickConfig.retries
    THEN /\ clickPc' = "returned"
         /\ clickResult' = ClickReturned(FALSE)
         /\ clickAttempt' = tryNo
    ELSE /\ clickPc' = "backoff"
         /\ clickAttempt' = tryNo
         /\ UNCHANGED clickResult

\* Lines 474-502, on the node as it is at that moment.
CheckAndClick(tryNo, dom) ==
    /\ clickChecks' = Append(clickChecks, [vis |-> isElementVisible(dom, clickTarget),
                                           en  |-> isElementEnabled(dom, clickTarget)])
    /\ IF ~Clickable(dom, clickTarget)
       THEN AttemptFailed(tryNo) /\ UNCHANGED activations
       ELSE \E strategy \in {TryStrategies(clickConfig.clickStrategies, dom[clickTarget])} :
                IF strategy = NoStrategy
                THEN AttemptFailed(tryNo) /\ UNCHANGED activations
                ELSE /\ activations' =
                            IF RunStrategy(strategy, dom[clickTarget]) = "activated"
                            THEN Append(activations, [attempt |-> tryNo, strategy |-> strategy])
                            ELSE activations
                     /\ clickPc' = "returned"
                     /\ clickResult' = ClickReturned(TRUE)
                     /\ clickAttempt' = tryNo

\* Lines 465-471, from the loop test to the first await of the attempt.
EnterClickAttempt(tryNo) ==
    IF tryNo > clickConfig.retries
    THEN /\ clickPc' = "returned"
         /\ clickResult' = ClickReturned(FALSE)
         /\ clickAttempt' = tryNo
         /\ UNCHANGED <<clickDom, clickChecks, activations>>
    ELSE IF clickConfig.scrollIntoView
    THEN /\ clickPc' = "scrolled"
         /\ clickAttempt' = tryNo
         /\ UNCHANGED <<clickDom, clickResult, clickChecks, activations>>
    ELSE CheckAndClick(tryNo, clickDom) /\ UNCHANGED clickDom

\* Lines 454-471: the call, up to its first await or its return.
clickElement ==
    /\ clickPc = "call"
    /\ IF clickTarget = NullElement
       THEN /\ clickPc' = "returned"
            /\ clickResult' = ClickReturned(FALSE)
            /\ UNCHANGED <<clickDom, clickAttempt, clickChecks, activations>>
       ELSE EnterClickAttempt(1)
    /\ UNCHANGED <<clickTarget, clickConfig>>

\* What the page may have made of the node while the call slept.
NodeNow(node) == {ClickNode(node.kind, vis, en) : vis \in BOOLEAN, en \in BOOLEAN}

\* Line 470 resumes: the wait after the scroll is over.
ScrollWake ==
    /\ clickPc = "scrolled"
    /\ \E node \in NodeNow(clickDom[clickTarget]) :
           /\ clickDom' = [clickDom EXCEPT ![clickTarget] = node]
           /\ CheckAndClick(clickAttempt, clickDom')
    /\ UNCHANGED <<clickTarget, clickConfig>>

\* Line 505 resumes: the pause between two attempts is over.
BackoffWake ==
    /\ clickPc = "backoff"
    /\ \E node \in NodeNow(clickDom[clickTarget]) :
           /\ clickDom' = [clickDom EXCEPT ![clickTarget] = node]
           /\ IF clickConfig.scrollIntoView
              THEN /\ clickPc' = "scrolled"
                   /\ clickAttempt' = clickAttempt + 1
                   /\ UNCHANGED <<clickResult, clickChecks, activations>>
              ELSE CheckAndClick(clickAttempt + 1, clickDom')
    /\ UNCHANGED <<clickTarget, clickConfig>>

(***************************************************************************)
(* The calls of clickElement: no element or one node, and the options a    *)
(* caller passes or leaves out.                                            *)
(***************************************************************************)
ClickOptions ==
    {r @@ v @@ c : r \in {<<>>} \cup {[retries |-> n] : n \in 0..MaxClickRetries},
                   v \in {<<>>, [scrollIntoView |-> FALSE]},
                   c \in {<<>>, [clickStrategies |-> <<>>],
                                [clickStrategies |-> <<"dispatchEvent">>],
                                [clickStrategies |-> <<"tap">>]}}

ClickStart(dom, el, options) ==
    /\ clickDom = dom
    /\ clickTarget = el
    /\ clickConfig = MakeClickConfig(options)
    /\ clickAttempt = 0
    /\ clickPc = "call"
    /\ clickResult = NoClickResult
    /\ clickChecks = <<>>
    /\ activations = <<>>

ClickInit ==
    \E options \in ClickOptions :
        \/ ClickStart(<<>>, NullElement, options)
        \/ \E kind \in {"html", "svg"} : \E vis \in BOOLEAN : \E en \in BOOLEAN :
               ClickStart(<<ClickNode(kind, vis, en)>>, 1, options)

ClickIdle ==
    /\ clickDom = <<>>
    /\ clickTarget = NullElement
    /\ clickConfig = MakeClickConfig(<<>>)
    /\ clickAttempt = 0
    /\ clickPc = "idle"
    /\ clickResult = NoClickResult
    /\ clickChecks = <<>>
    /\ activations = <<>>

(***************************************************************************)
(* loadEnhancedModules (injector.js:218-380).  The initialisers the list   *)
(* names are taken to be defined in the content script's world; what a     *)
(* script load and an initialiser do is the page's and the module's: each  *)
(* succeeds or fails.  A call is suspended while a script it injected      *)
(* loads and while an initialiser runs, and other calls run meanwhile.     *)
(***************************************************************************)
Loader(url, init) == [url |-> url, init |-> init]

\* Lines 232-343.
moduleLoaders ==
    << Loader("content/adaptive-selector-system.js", TRUE),
       Loader("content/picker.js", FALSE),
       Loader("content/advanced-extractor.js", FALSE),
       Loader("content/dynamic-content-observer.js", FALSE),
       Loader("content/adaptive-selector-system.js", FALSE),
       Loader("content/infinite-scroll-handler.js", FALSE),
       Loader("content/comprehensive-validation.js", FALSE),
       Loader("content/network-interceptor.js", FALSE),
       Loader("content/css-background-extractor.js", FALSE),
       Loader("content/enhanced-integration-manager.js", FALSE),
       Loader("content/production-monitor.js", TRUE),
       Loader("content/enhanced-scraper-utils.js", FALSE),
       Loader("content/enhanced-pagination-handler.js", TRUE),
       Loader("content/scraper-integration.js", TRUE),
       Loader("content/advanced-export-system.js", FALSE),
       Loader("content/enterprise-integration-core.js", TRUE),
       Loader("content/intelligent-caching-system.js", FALSE),
       Loader("content/adaptive-resource-manager.js", FALSE) >>

\* A call: its argument, the flag as line 219 found it, the detector's
\* verdict at line 222 ("unasked" when line 222 did not call it), where the
\* call is, how many scripts it has injected, whether a load or an
\* initialiser of its has failed, and whether it injected a script while
\* the flag was set.
LoaderCall(force, loaded, verdict, where, at, failed, late) ==
    [force |-> force, loadedAtCall |-> loaded, verdict |-> verdict, pc |-> where,
     at |-> at, failed |-> failed, injectedWhileLoaded |-> late]

IgnoresDetector(force, loaded, verdict) == ~loaded

\* Lines 219-226: the two early returns.
PassesGate(force, loaded, verdict) == ~loaded /\ (force \/ verdict = "true")

\* Lines 346-356 and 373: the loop goes on to the module after position at,
\* injecting its script, or ends and sets the flag.
NextModule(call, failedNow, loaded) ==
    IF call.at < Len(moduleLoaders)
    THEN [call EXCEPT !.pc = "load", !.at = @ + 1,
                      !.failed = @ \/ failedNow,
                      !.injectedWhileLoaded = @ \/ loaded]
    ELSE [call EXCEPT !.pc = "returned", !.failed = @ \/ failedNow]

\* Lines 218-356: a call, up to its first await or its return.
loadEnhancedModules ==
    /\ Len(loaderCalls) < MaxLoaderCalls
    /\ \E force \in BOOLEAN :
       \E verdict \in IF enhancedModulesLoaded \/ force THEN {"unasked"} ELSE {"true", "false"} :
       \E call \in {LoaderCall(force, enhancedModulesLoaded, verdict, "gate", 0, FALSE, FALSE)} :
           /\ loaderCalls' = Append(loaderCalls,
                  IF PassesGate(force, enhancedModulesLoaded, verdict)
                  THEN NextModule(call, FALSE, enhancedModulesLoaded)
                  ELSE [call EXCEPT !.pc = "returned"])
           /\ UNCHANGED enhancedModulesLoaded

\* The call resumes at position at of the list and goes round the loop.
Resume(c, failedNow) ==
    /\ loaderCalls' = [loaderCalls EXCEPT
                          ![c] = NextModule(@, failedNow, enhancedModulesLoaded)]
    /\ enhancedModulesLoaded' =
           IF loaderCalls[c].at < Len(moduleLoaders) THEN enhancedModulesLoaded ELSE TRUE

\* Lines 354-362: the script of a call has loaded (onload) or not (onerror,
\* caught at line 365); a loaded module with an initialiser has it called.
ScriptSettles ==
    \E c \in 1..Len(loaderCalls) :
        /\ loaderCalls[c].pc = "load"
        /\ \E loads \in BOOLEAN :
               IF loads /\ moduleLoaders[loaderCalls[c].at].init
               THEN /\ loaderCalls' = [loaderCalls EXCEPT ![c].pc = "init"]
                    /\ UNCHANGED enhancedModulesLoaded
               ELSE Resume(c, ~loads)

\* Lines 360-362: the initialiser has returned or raised (caught at 365).
InitSettles ==
    \E c \in 1..Len(loaderCalls) :
        /\ loaderCalls[c].pc = "init"
        /\ \E initialised \in BOOLEAN : Resume(c, ~initialised)

LoaderInit ==
    /\ enhancedModulesLoaded = FALSE
    /\ loaderCalls = <<>>

\* No call has been made.
LoaderIdle == LoaderInit

(***************************************************************************)
(* fillForm (robust-helpers.js:822-907).  Called with throwOnTimeout:      *)
(* false, waitForSelector returns the element it found or null (lines      *)
(* 36-60).  A field the page has is a select, a checkbox or radio button,  *)
(* a text input, or a file input, whose value cannot be assigned a         *)
(* non-empty string: the assignment of line 864 raises on it.              *)
(***************************************************************************)
NoElement == "null"

\* Line 826.
DefaultWaitBetweenFields == 100

FieldKinds == {"select", "checkbox", "text", "file"}

\* Lines 823-828.
MakeFormConfig(options) ==
    [validateAfterFill |-> Opt(options, "validateAfterFill", TRUE),
     submitAfterFill   |-> Opt(options, "submitAfterFill", FALSE),
     waitBetweenFields |-> Opt(options, "waitBetweenFields", DefaultWaitBetweenFields)]

FieldNotFound(fieldName) == [kind |-> "not found", field |-> fieldName]

FillError(fieldName) == [kind |-> "error filling", field |-> fieldName]

SubmitNotFound == [kind |-> "submit button not found", field |-> ""]

\* Lines 855-866: the assignment raises or the field is filled.
FillRaises(field) == field = "file"

\* Lines 849-852.
FieldMissing(results, fieldName) ==
    [results EXCEPT !.errors = Append(@, FieldNotFound(fieldName))]

\* Lines 874-877.
FieldRaised(results, fieldName) ==
    [results EXCEPT !.errors = Append(@, FillError(fieldName)), !.success = FALSE]

\* Line 868.
FieldFilled(results, fieldName) ==
    [results EXCEPT !.filledFields = Append(@, fieldName)]

\* Lines 836-846 and 880-893: the loop takes the next entry and awaits
\* waitForSelector for it; after the last entry the submit button is
\* looked for, or fillForm returns.
NextField(i, results) ==
    /\ formI' = i
    /\ IF i < Len(formData)
       THEN formPc' = "field"
       ELSE IF formConfig.submitAfterFill /\ results.success
       THEN formPc' = "submit"
       ELSE formPc' = "returned"

\* Lines 822-846: the call, up to its first await or its return.
fillForm ==
    /\ formPc = "call"
    /\ NextField(0, formResults)
    /\ UNCHANGED <<formData, formConfig, formResults, fieldLookups, submitLookup>>

\* Lines 838-877: waitForSelector has returned for the field.
FieldLookupSettles ==
    /\ formPc = "field"
    /\ \E field \in FieldKinds \cup {NoElement} :
       \E fieldName \in {formData[formI + 1]} :
           /\ fieldLookups' = Append(fieldLookups, field)
           /\ IF field = NoElement
              THEN /\ formResults' = FieldMissing(formResults, fieldName)
                   /\ NextField(formI + 1, formResults')
              ELSE IF FillRaises(field)
              THEN /\ formResults' = FieldRaised(formResults, fieldName)
                   /\ NextField(formI + 1, formResults')
              ELSE /\ formResults' = FieldFilled(formResults, fieldName)
                   /\ IF formConfig.waitBetweenFields > 0
                      THEN formPc' = "pause" /\ formI' = formI
                      ELSE NextField(formI + 1, formResults')
    /\ UNCHANGED <<formData, formConfig, submitLookup>>

\* Line 872 resumes.
FieldPauseOver ==
    /\ formPc = "pause"
    /\ NextField(formI + 1, formResults)
    /\ UNCHANGED <<formData, formConfig, formResults, fieldLookups, submitLookup>>

\* Lines 882-898: waitForSelector has returned for the submit button.
SubmitLookupSettles ==
    /\ formPc = "submit"
    /\ \E found \in BOOLEAN :
           IF found
           THEN /\ submitLookup' = "found"
                /\ formPc' = "click"
                /\ UNCHANGED formResults
           ELSE /\ submitLookup' = "missing"
                /\ formResults' = [formResults EXCEPT !.errors = Append(@, SubmitNotFound)]
                /\ formPc' = "returned"
    /\ UNCHANGED <<formData, formConfig, formI, fieldLookups>>

\* Lines 895-896: clickElement has returned; what it returned is not read.
SubmitClickSettles ==
    /\ formPc = "click"
    /\ formResults' = [formResults EXCEPT !.submitted = TRUE]
    /\ formPc' = "returned"
    /\ UNCHANGED <<formData, formConfig, formI, fieldLookups, submitLookup>>

(***************************************************************************)
(* The calls of fillForm: up to MaxFields fields and the options a caller  *)
(* passes or leaves out.                                                   *)
(***************************************************************************)
FieldNames == <<"email", "name", "phone">>

FormOptions ==
    {s @@ w : s \in {<<>>, [submitAfterFill |-> TRUE]},
              w \in {<<>>, [waitBetweenFields |-> 0]}}

NoResults == [success |-> TRUE, filledFields |-> <<>>, errors |-> <<>>, submitted |-> FALSE]

FormStart(names, options) ==
    /\ formData = names
    /\ formConfig = MakeFormConfig(options)
    /\ formI = 0
    /\ formPc = "call"
    /\ formResults = NoResults
    /\ fieldLookups = <<>>
    /\ submitLookup = "none"

FormInit ==
    \E n \in 0..MaxFields : \E options \in FormOptions :
        FormStart(SubSeq(FieldNames, 1, n), options)

FormIdle ==
    /\ formData = <<>>
    /\ formConfig = MakeFormConfig(<<>>)
    /\ formI = 0
    /\ formPc = "idle"
    /\ formResults = NoResults
    /\ fieldLookups = <<>>
    /\ submitLookup = "none"

(***************************************************************************)
(* StepTwoDashboard (windowed-dashboard.js).  A property name and the id   *)
(* of a control are strings the code takes apart, so they are sequences of *)
(* characters here.  A handler that awaits one chrome call is one step,    *)
(* with the outcome of the call (delivered, or rejected for want of a      *)
(* receiver); outside the extension chrome.tabs and chrome.storage are     *)
(* undefined and every such call raises at once.                           *)
(***************************************************************************)
UpperCase == <<"A", "B", "C", "D", "E", "F", "G", "H", "I", "J", "K", "L", "M",
               "N", "O", "P", "Q", "R", "S", "T", "U", "V", "W", "X", "Y", "Z">>

LowerCase == <<"a", "b", "c", "d", "e", "f", "g", "h", "i", "j", "k", "l", "m",
               "n", "o", "p", "q", "r", "s", "t", "u", "v", "w", "x", "y", "z">>

IsUpper(c) == \E k \in 1..Len(UpperCase) : UpperCase[k] = c

\* String.prototype.toLowerCase, character by character.
LowerCaseOf(str) ==
    [k \in 1..Len(str) |->
        IF IsUpper(str[k])
        THEN LowerCase[CHOOSE j \in 1..Len(UpperCase) : UpperCase[j] = str[k]]
        ELSE str[k]]

\* str.replace(/([A-Z])/g, '_$1'): an underscore before every capital.
RECURSIVE UnderscoreCapitals(_)
UnderscoreCapitals(str) ==
    IF str = <<>> THEN <<>>
    ELSE (IF IsUpper(Head(str)) THEN <<"_", Head(str)>> ELSE <<Head(str)>>)
             \o UnderscoreCapitals(Tail(str))

\* Lines 553 and 569: the property the change handler writes.
SettingKey(fieldId) == LowerCaseOf(UnderscoreCapitals(fieldId))

startsWith(str, prefix) ==
    Len(str) >= Len(prefix) /\ SubSeq(str, 1, Len(prefix)) = prefix

FormatPrefix == <<"f", "o", "r", "m", "a", "t">>

\* Line 566: fieldId.replace('format', '').toLowerCase(), of an id that
\* starts with 'format'.
FormatKey(fieldId) == LowerCaseOf(SubSeq(fieldId, Len(FormatPrefix) + 1, Len(fieldId)))

\* parseInt of the text of a number field: a run of digits.
RECURSIVE parseInt(_)
parseInt(text) ==
    IF text = <<>> THEN 0
    ELSE 10 * parseInt(SubSeq(text, 1, Len(text) - 1)) + text[Len(text)]

\* The controls (lines 546 and 559) and the properties (lines 26-37).
concurrencyLimit == <<"c", "o", "n", "c", "u", "r", "r", "e", "n", "c", "y", "L", "i", "m", "i", "t">>

minWidth == <<"m", "i", "n", "W", "i", "d", "t", "h">>

skipDuplicates == <<"s", "k", "i", "p", "D", "u", "p", "l", "i", "c", "a", "t", "e", "s">>

formatJpeg == <<"f", "o", "r", "m", "a", "t", "J", "p", "e", "g">>

concurrency == <<"c", "o", "n", "c", "u", "r", "r", "e", "n", "c", "y">>

formats == <<"f", "o", "r", "m", "a", "t", "s">>

jpeg == <<"j", "p", "e", "g">>

png == <<"p", "n", "g">>

inputFields == {concurrencyLimit, minWidth}

checkboxFields == {skipDuplicates, formatJpeg}

\* Lines 26-37 and 1119-1130.
DefaultSettings ==
    (concurrency :> 3) @@ (minWidth :> 100) @@ (skipDuplicates :> TRUE)
        @@ (formats :> ((jpeg :> TRUE) @@ (png :> TRUE)))

\* JavaScript's obj[key] = value: the property is created when missing.
SetProperty(obj, key, value) ==
    [k \in DOMAIN obj \cup {key} |-> IF k = key THEN value ELSE obj[k]]

\* Lines 477-511: the value updateSettingsUI writes into a control, which
\* is the setting the control represents.
Represented(obj, fieldId) ==
    IF fieldId = concurrencyLimit THEN obj[concurrency]
    ELSE IF fieldId = formatJpeg THEN obj[formats][jpeg]
    ELSE obj[fieldId]

RECURSIVE DigitsOf(_)
DigitsOf(n) == IF n < 10 THEN <<n>> ELSE Append(DigitsOf(n \div 10), n % 10)

updateSettingsUI(obj) ==
    [fieldId \in inputFields \cup checkboxFields |->
        IF fieldId \in inputFields
        THEN DigitsOf(Represented(obj, fieldId))
        ELSE Represented(obj, fieldId)]

\* The value a control stands for: the number in a field, the state of a
\* checkbox.
ControlValue(ctl, fieldId) ==
    IF fieldId \in inputFields THEN parseInt(ctl[fieldId]) ELSE ctl[fieldId]

\* The text the user types into a number field.
NumberTexts == {<<1, 2>>}

NoSelector == ""

NoMessage == [type |-> "none"]

TabMessage(type) == [type |-> type]

\* Lines 406-414.
StartScraping(selector, obj, ctl) ==
    [type           |-> "START_SCRAPING",
     selector       |-> selector,
     skipDuplicates |-> obj[skipDuplicates],
     allowedFormats |-> {f \in DOMAIN obj[formats] : obj[formats][f]},
     checkbox       |-> ctl[skipDuplicates]]

\* chrome.tabs.sendMessage: in the extension the message is delivered to the
\* page tab, or the promise rejects for want of a receiver there; outside
\* the extension the call raises.
SendOutcomes == IF extensionContext THEN {"delivered", "rejected"} ELSE {"raised"}

Sent(reply, message) == IF reply = "delivered" THEN message ELSE lastTabMessage

\* Lines 549-555: the change handler of a number field.
changeInput ==
    \E fieldId \in inputFields : \E text \in NumberTexts :
        /\ controls' = [controls EXCEPT ![fieldId] = text]
        /\ settings' = SetProperty(settings, SettingKey(fieldId), parseInt(text))
        /\ changed' = changed \cup {fieldId}
        /\ UNCHANGED <<isDemo, sourceTab, extensionContext, smartSelectorActive,
                       scrapingActive, pickedSelector, lastTabMessage, storage>>

\* Lines 562-573: the change handler of a checkbox.
changeCheckbox ==
    \E fieldId \in checkboxFields : \E checked \in BOOLEAN :
        /\ controls[fieldId] # checked
        /\ controls' = [controls EXCEPT ![fieldId] = checked]
        /\ settings' =
               IF startsWith(fieldId, FormatPrefix)
               THEN [settings EXCEPT ![formats] = SetProperty(@, FormatKey(fieldId), checked)]
               ELSE SetProperty(settings, SettingKey(fieldId), checked)
        /\ changed' = changed \cup {fieldId}
        /\ UNCHANGED <<isDemo, sourceTab, extensionContext, smartSelectorActive,
                       scrapingActive, pickedSelector, lastTabMessage, storage>>

\* Lines 467-475: chrome.storage.local.set(this.settings); outside the
\* extension the call raises and the catch logs it.
saveSettings ==
    /\ storage' = IF extensionContext THEN settings ELSE storage
    /\ UNCHANGED <<isDemo, sourceTab, extensionContext, smartSelectorActive, scrapingActive,
                   settings, controls, changed, pickedSelector, lastTabMessage>>

\* Lines 1117-1135, the user confirming.
resetSettings ==
    /\ settings' = DefaultSettings
    /\ controls' = updateSettingsUI(DefaultSettings)
    /\ changed' = {}
    /\ storage' = IF extensionContext THEN DefaultSettings ELSE storage
    /\ UNCHANGED <<isDemo, sourceTab, extensionContext, smartSelectorActive, scrapingActive,
                   pickedSelector, lastTabMessage>>

\* Lines 300-323.
startSmartSelector ==
    /\ IF ~sourceTab
       THEN UNCHANGED <<smartSelectorActive, lastTabMessage>>
       ELSE \E reply \in SendOutcomes :
                /\ lastTabMessage' = Sent(reply, TabMessage("enableSelectorMode"))
                /\ smartSelectorActive' = (reply = "delivered")
    /\ UNCHANGED <<isDemo, sourceTab, extensionContext, scrapingActive, settings, controls,
                   changed, pickedSelector, storage>>

\* Lines 687-694: the quick start button.
startQuickSelection == startSmartSelector

\* Lines 325-340.
stopSmartSelector ==
    /\ sourceTab
    /\ \E reply \in SendOutcomes :
           /\ lastTabMessage' = Sent(reply, TabMessage("disableSelectorMode"))
           /\ smartSelectorActive' = IF reply = "delivered" THEN FALSE ELSE smartSelectorActive
    /\ UNCHANGED <<isDemo, sourceTab, extensionContext, scrapingActive, settings, controls,
                   changed, pickedSelector, storage>>

\* Lines 360-389: the page reports the selector the user picked there,
\* which it does once selector mode has been enabled on it.
handleSelectorPicked ==
    /\ smartSelectorActive
    /\ \E selector \in {NoSelector, ".item"} :
           /\ pickedSelector' = selector
           /\ smartSelectorActive' = FALSE
    /\ UNCHANGED <<isDemo, sourceTab, extensionContext, scrapingActive, settings, controls,
                   changed, lastTabMessage, storage>>

\* Lines 398-425: the "use" button.
useSmartSelector ==
    /\ pickedSelector # NoSelector
    /\ sourceTab
    /\ \E reply \in SendOutcomes :
           /\ lastTabMessage' = Sent(reply, StartScraping(pickedSelector, settings, controls))
           /\ scrapingActive' = (reply = "delivered")
    /\ UNCHANGED <<isDemo, sourceTab, extensionContext, smartSelectorActive, settings,
                   controls, changed, pickedSelector, storage>>

\* Lines 696-721.
SmartDetection ==
    /\ IF ~sourceTab
       THEN UNCHANGED <<scrapingActive, lastTabMessage>>
       ELSE \E reply \in SendOutcomes :
                /\ lastTabMessage' = Sent(reply, TabMessage("SMART_GUESS"))
                /\ scrapingActive' = IF reply = "delivered" THEN TRUE ELSE scrapingActive
    /\ UNCHANGED <<isDemo, sourceTab, extensionContext, smartSelectorActive, settings,
                   controls, changed, pickedSelector, storage>>

startSmartDetection == SmartDetection

\* Lines 723-767: in demo mode the results are made up; otherwise the page
\* is asked for a preview.
startPreviewMode ==
    /\ IF isDemo \/ ~sourceTab
       THEN UNCHANGED lastTabMessage
       ELSE \E reply \in SendOutcomes :
                lastTabMessage' = Sent(reply, TabMessage("SMART_GUESS preview"))
    /\ UNCHANGED <<isDemo, sourceTab, extensionContext, smartSelectorActive, scrapingActive,
                   settings, controls, changed, pickedSelector, storage>>

Unchanged ==
    UNCHANGED <<isDemo, sourceTab, extensionContext, smartSelectorActive, scrapingActive,
                settings, controls, changed, pickedSelector, lastTabMessage, storage>>

\* Lines 833-874, for the mode the export control shows.
Export(mode) ==
    IF isDemo /\ mode # "preview" THEN Unchanged
    ELSE IF mode = "preview" THEN startPreviewMode
    ELSE IF mode = "download" THEN SmartDetection
    ELSE Unchanged

\* The export button, the user having chosen a mode.
handleExport == \E mode \in {"download", "data", "preview"} : Export(mode)

\* Lines 654-674: the two buttons under the preview results.
proceedWithExport == \E mode \in {"download", "data"} : Export(mode)

\* Lines 1102-1115: the stop button, a message to the background page.
stopAll ==
    /\ scrapingActive
    /\ scrapingActive' = IF extensionContext THEN FALSE ELSE scrapingActive
    /\ UNCHANGED <<isDemo, sourceTab, extensionContext, smartSelectorActive, settings,
                   controls, changed, pickedSelector, lastTabMessage, storage>>

\* Lines 106-113.
detectDemoMode(isExtensionContext, forceDemo) == ~isExtensionContext \/ forceDemo

NoStorage == <<>>

\* Lines 5-82: the dashboard as init leaves it, nothing being stored yet.
DashboardStart(isExtensionContext, forceDemo, tabKnown) ==
    /\ isDemo = detectDemoMode(isExtensionContext, forceDemo)
    /\ sourceTab = tabKnown
    /\ extensionContext = isExtensionContext
    /\ smartSelectorActive = FALSE
    /\ scrapingActive = FALSE
    /\ settings = DefaultSettings
    /\ controls = updateSettingsUI(DefaultSettings)
    /\ changed = {}
    /\ pickedSelector = NoSelector
    /\ lastTabMessage = NoMessage
    /\ storage = NoStorage

DashboardInit ==
    \E isExtensionContext \in BOOLEAN : \E forceDemo \in BOOLEAN : \E tabKnown \in BOOLEAN :
        DashboardStart(isExtensionContext, forceDemo, tabKnown)

\* No dashboard is open.
DashboardIdle ==
    /\ isDemo = FALSE
    /\ sourceTab = FALSE
    /\ extensionContext = FALSE
    /\ smartSelectorActive = FALSE
    /\ scrapingActive = FALSE
    /\ settings = <<>>
    /\ controls = <<>>
    /\ changed = {}
    /\ pickedSelector = NoSelector
    /\ lastTabMessage = NoMessage
    /\ storage = NoStorage

(***************************************************************************)
(* The specifications: one call of waitForSelector; one call of            *)
(* gatherImages.                                                           *)
(***************************************************************************)
SpecWaitInit == WaitInit /\ GatherIdle /\ UrlIdle /\ DetectIdle /\ ScoreIdle /\ BatchIdle /\ CacheIdle /\ CancelIdle /\ PaginationIdle /\ ClickIdle /\ LoaderIdle /\ FormIdle /\ DashboardIdle

SpecWaitNext ==
    \/ EnterAttempt /\ UNCHANGED <<gatherVars, urlVars, detectVars, scoreVars, batchVars, cacheVars, cancelVars, pagVars, clickVars, loaderVars, formVars, dashVars>>
    \/ RetriesExhausted /\ UNCHANGED <<gatherVars, urlVars, detectVars, scoreVars, batchVars, cacheVars, cancelVars, pagVars, clickVars, loaderVars, formVars, dashVars>>
    \/ PollFound /\ UNCHANGED <<gatherVars, urlVars, detectVars, scoreVars, batchVars, cacheVars, cancelVars, pagVars, clickVars, loaderVars, formVars, dashVars>>
    \/ PollMiss /\ UNCHANGED <<gatherVars, urlVars, detectVars, scoreVars, batchVars, cacheVars, cancelVars, pagVars, clickVars, loaderVars, formVars, dashVars>>
    \/ AttemptTimedOut /\ UNCHANGED <<gatherVars, urlVars, detectVars, scoreVars, batchVars, cacheVars, cancelVars, pagVars, clickVars, loaderVars, formVars, dashVars>>
    \/ Wake /\ UNCHANGED <<gatherVars, urlVars, detectVars, scoreVars, batchVars, cacheVars, cancelVars, pagVars, clickVars, loaderVars, formVars, dashVars>>
    \/ DomMutate /\ UNCHANGED <<gatherVars, urlVars, detectVars, scoreVars, batchVars, cacheVars, cancelVars, pagVars, clickVars, loaderVars, formVars, dashVars>>

SpecWait == SpecWaitInit /\ [][SpecWaitNext]_vars

SpecGatherInit == GatherInit /\ WaitIdle /\ UrlIdle /\ DetectIdle /\ ScoreIdle /\ BatchIdle /\ CacheIdle /\ CancelIdle /\ PaginationIdle /\ ClickIdle /\ LoaderIdle /\ FormIdle /\ DashboardIdle

SpecGatherNext ==
    \/ ExtractNothing /\ UNCHANGED <<waitVars, urlVars, detectVars, scoreVars, batchVars, cacheVars, cancelVars, pagVars, clickVars, loaderVars, formVars, dashVars>>
    \/ ExtractStartProbe /\ UNCHANGED <<waitVars, urlVars, detectVars, scoreVars, batchVars, cacheVars, cancelVars, pagVars, clickVars, loaderVars, formVars, dashVars>>
    \/ ProbeLoaded /\ UNCHANGED <<waitVars, urlVars, detectVars, scoreVars, batchVars, cacheVars, cancelVars, pagVars, clickVars, loaderVars, formVars, dashVars>>
    \/ ProbeFailed /\ UNCHANGED <<waitVars, urlVars, detectVars, scoreVars, batchVars, cacheVars, cancelVars, pagVars, clickVars, loaderVars, formVars, dashVars>>
    \/ SelectorsDone /\ UNCHANGED <<waitVars, urlVars, detectVars, scoreVars, batchVars, cacheVars, cancelVars, pagVars, clickVars, loaderVars, formVars, dashVars>>
    \/ SweepNothing /\ UNCHANGED <<waitVars, urlVars, detectVars, scoreVars, batchVars, cacheVars, cancelVars, pagVars, clickVars, loaderVars, formVars, dashVars>>
    \/ SweepStartProbe /\ UNCHANGED <<waitVars, urlVars, detectVars, scoreVars, batchVars, cacheVars, cancelVars, pagVars, clickVars, loaderVars, formVars, dashVars>>
    \/ SweepProbeLoaded /\ UNCHANGED <<waitVars, urlVars, detectVars, scoreVars, batchVars, cacheVars, cancelVars, pagVars, clickVars, loaderVars, formVars, dashVars>>
    \/ SweepProbeFailed /\ UNCHANGED <<waitVars, urlVars, detectVars, scoreVars, batchVars, cacheVars, cancelVars, pagVars, clickVars, loaderVars, formVars, dashVars>>
    \/ SweepDone /\ UNCHANGED <<waitVars, urlVars, detectVars, scoreVars, batchVars, cacheVars, cancelVars, pagVars, clickVars, loaderVars, formVars, dashVars>>

SpecGather == SpecGatherInit /\ [][SpecGatherNext]_vars

SpecUrlInit == UrlInit /\ WaitIdle /\ GatherIdle /\ DetectIdle /\ ScoreIdle /\ BatchIdle /\ CacheIdle /\ CancelIdle /\ PaginationIdle /\ ClickIdle /\ LoaderIdle /\ FormIdle /\ DashboardIdle

SpecUrlNext ==
    \/ NormalizeOnce /\ UNCHANGED <<waitVars, gatherVars, detectVars, scoreVars, batchVars, cacheVars, cancelVars, pagVars, clickVars, loaderVars, formVars, dashVars>>
    \/ NormalizeAgain /\ UNCHANGED <<waitVars, gatherVars, detectVars, scoreVars, batchVars, cacheVars, cancelVars, pagVars, clickVars, loaderVars, formVars, dashVars>>

SpecUrl == SpecUrlInit /\ [][SpecUrlNext]_vars

SpecDetectInit == DetectInit /\ WaitIdle /\ GatherIdle /\ UrlIdle /\ ScoreIdle /\ BatchIdle /\ CacheIdle /\ CancelIdle /\ PaginationIdle /\ ClickIdle /\ LoaderIdle /\ FormIdle /\ DashboardIdle

SpecDetectNext ==
    \/ detectGalleryPage /\ UNCHANGED <<waitVars, gatherVars, urlVars, scoreVars, batchVars, cacheVars, cancelVars, pagVars, clickVars, loaderVars, formVars, dashVars>>
    \/ ContentChange /\ UNCHANGED <<waitVars, gatherVars, urlVars, scoreVars, batchVars, cacheVars, cancelVars, pagVars, clickVars, loaderVars, formVars, dashVars>>
    \/ Navigate /\ UNCHANGED <<waitVars, gatherVars, urlVars, scoreVars, batchVars, cacheVars, cancelVars, pagVars, clickVars, loaderVars, formVars, dashVars>>

SpecDetect == SpecDetectInit /\ [][SpecDetectNext]_vars

SpecScoreInit == ScoreInit /\ WaitIdle /\ GatherIdle /\ UrlIdle /\ DetectIdle /\ BatchIdle /\ CacheIdle /\ CancelIdle /\ PaginationIdle /\ ClickIdle /\ LoaderIdle /\ FormIdle /\ DashboardIdle

SpecScoreNext ==
    \/ smartElementDetection /\ UNCHANGED <<waitVars, gatherVars, urlVars, detectVars, batchVars, cacheVars, cancelVars, pagVars, clickVars, loaderVars, formVars, dashVars>>

SpecScore == SpecScoreInit /\ [][SpecScoreNext]_vars

SpecBatchInit == BatchInit /\ WaitIdle /\ GatherIdle /\ UrlIdle /\ DetectIdle /\ ScoreIdle /\ CacheIdle /\ CancelIdle /\ PaginationIdle /\ ClickIdle /\ LoaderIdle /\ FormIdle /\ DashboardIdle

SpecBatchNext ==
    \/ batchProcess /\ UNCHANGED <<waitVars, gatherVars, urlVars, detectVars, scoreVars, cacheVars, cancelVars, pagVars, clickVars, loaderVars, formVars, dashVars>>
    \/ WorkerSettles /\ UNCHANGED <<waitVars, gatherVars, urlVars, detectVars, scoreVars, cacheVars, cancelVars, pagVars, clickVars, loaderVars, formVars, dashVars>>
    \/ ChunkDone /\ UNCHANGED <<waitVars, gatherVars, urlVars, detectVars, scoreVars, cacheVars, cancelVars, pagVars, clickVars, loaderVars, formVars, dashVars>>
    \/ ChunkFailed /\ UNCHANGED <<waitVars, gatherVars, urlVars, detectVars, scoreVars, cacheVars, cancelVars, pagVars, clickVars, loaderVars, formVars, dashVars>>
    \/ BatchWake /\ UNCHANGED <<waitVars, gatherVars, urlVars, detectVars, scoreVars, cacheVars, cancelVars, pagVars, clickVars, loaderVars, formVars, dashVars>>

SpecBatch == SpecBatchInit /\ [][SpecBatchNext]_vars

SpecCacheInit == CacheInit /\ WaitIdle /\ GatherIdle /\ UrlIdle /\ DetectIdle /\ ScoreIdle /\ BatchIdle /\ CancelIdle /\ PaginationIdle /\ ClickIdle /\ LoaderIdle /\ FormIdle /\ DashboardIdle

SpecCacheNext ==
    \/ getCachedSelector /\ UNCHANGED <<waitVars, gatherVars, urlVars, detectVars, scoreVars, batchVars, cancelVars, pagVars, clickVars, loaderVars, formVars, dashVars>>
    \/ setCachedSelectorNew /\ UNCHANGED <<waitVars, gatherVars, urlVars, detectVars, scoreVars, batchVars, cancelVars, pagVars, clickVars, loaderVars, formVars, dashVars>>
    \/ setCachedSelectorAgain /\ UNCHANGED <<waitVars, gatherVars, urlVars, detectVars, scoreVars, batchVars, cancelVars, pagVars, clickVars, loaderVars, formVars, dashVars>>
    \/ CacheTick /\ UNCHANGED <<waitVars, gatherVars, urlVars, detectVars, scoreVars, batchVars, cancelVars, pagVars, clickVars, loaderVars, formVars, dashVars>>

SpecCache == SpecCacheInit /\ [][SpecCacheNext]_vars

SpecCancelInit == BatchInit /\ WaitIdle /\ GatherIdle /\ UrlIdle /\ DetectIdle /\ ScoreIdle /\ CacheIdle /\ CancelIdle /\ PaginationIdle /\ ClickIdle /\ LoaderIdle /\ FormIdle /\ DashboardIdle

SpecCancelNext ==
    \/ batchProcess /\ UNCHANGED <<waitVars, gatherVars, urlVars, detectVars, scoreVars, cacheVars, cancelVars, pagVars, clickVars, loaderVars, formVars, dashVars>>
    \/ WorkerSettles /\ UNCHANGED <<waitVars, gatherVars, urlVars, detectVars, scoreVars, cacheVars, cancelVars, pagVars, clickVars, loaderVars, formVars, dashVars>>
    \/ ChunkDone /\ UNCHANGED <<waitVars, gatherVars, urlVars, detectVars, scoreVars, cacheVars, cancelVars, pagVars, clickVars, loaderVars, formVars, dashVars>>
    \/ ChunkFailed /\ UNCHANGED <<waitVars, gatherVars, urlVars, detectVars, scoreVars, cacheVars, cancelVars, pagVars, clickVars, loaderVars, formVars, dashVars>>
    \/ BatchWake /\ UNCHANGED <<waitVars, gatherVars, urlVars, detectVars, scoreVars, cacheVars, cancelVars, pagVars, clickVars, loaderVars, formVars, dashVars>>
    \/ abort /\ UNCHANGED <<waitVars, gatherVars, urlVars, detectVars, scoreVars, batchVars, cacheVars, pagVars, clickVars, loaderVars, formVars, dashVars>>

SpecCancel == SpecCancelInit /\ [][SpecCancelNext]_vars

SpecPaginationInit == PaginationInit /\ WaitIdle /\ GatherIdle /\ UrlIdle /\ DetectIdle /\ ScoreIdle /\ BatchIdle /\ CacheIdle /\ CancelIdle /\ ClickIdle /\ LoaderIdle /\ FormIdle /\ DashboardIdle

SpecPaginationNext ==
    \/ startTraversal /\ UNCHANGED <<waitVars, gatherVars, urlVars, detectVars, scoreVars, batchVars, cacheVars, cancelVars, clickVars, loaderVars, formVars, dashVars>>
    \/ extractRound /\ UNCHANGED <<waitVars, gatherVars, urlVars, detectVars, scoreVars, batchVars, cacheVars, cancelVars, clickVars, loaderVars, formVars, dashVars>>
    \/ advancePage /\ UNCHANGED <<waitVars, gatherVars, urlVars, detectVars, scoreVars, batchVars, cacheVars, cancelVars, clickVars, loaderVars, formVars, dashVars>>
    \/ scrollForMore /\ UNCHANGED <<waitVars, gatherVars, urlVars, detectVars, scoreVars, batchVars, cacheVars, cancelVars, clickVars, loaderVars, formVars, dashVars>>
    \/ contentSettles /\ UNCHANGED <<waitVars, gatherVars, urlVars, detectVars, scoreVars, batchVars, cacheVars, cancelVars, clickVars, loaderVars, formVars, dashVars>>

SpecPagination == SpecPaginationInit /\ [][SpecPaginationNext]_vars

SpecClickInit == ClickInit /\ WaitIdle /\ GatherIdle /\ UrlIdle /\ DetectIdle /\ ScoreIdle /\ BatchIdle /\ CacheIdle /\ CancelIdle /\ PaginationIdle /\ LoaderIdle /\ FormIdle /\ DashboardIdle

SpecClickNext ==
    \/ clickElement /\ UNCHANGED <<waitVars, gatherVars, urlVars, detectVars, scoreVars, batchVars, cacheVars, cancelVars, pagVars, loaderVars, formVars, dashVars>>
    \/ ScrollWake /\ UNCHANGED <<waitVars, gatherVars, urlVars, detectVars, scoreVars, batchVars, cacheVars, cancelVars, pagVars, loaderVars, formVars, dashVars>>
    \/ BackoffWake /\ UNCHANGED <<waitVars, gatherVars, urlVars, detectVars, scoreVars, batchVars, cacheVars, cancelVars, pagVars, loaderVars, formVars, dashVars>>

SpecClick == SpecClickInit /\ [][SpecClickNext]_vars

SpecLoaderInit == LoaderInit /\ WaitIdle /\ GatherIdle /\ UrlIdle /\ DetectIdle /\ ScoreIdle /\ BatchIdle /\ CacheIdle /\ CancelIdle /\ PaginationIdle /\ ClickIdle /\ FormIdle /\ DashboardIdle

SpecLoaderNext ==
    \/ loadEnhancedModules /\ UNCHANGED <<waitVars, gatherVars, urlVars, detectVars, scoreVars, batchVars, cacheVars, cancelVars, pagVars, clickVars, formVars, dashVars>>
    \/ ScriptSettles /\ UNCHANGED <<waitVars, gatherVars, urlVars, detectVars, scoreVars, batchVars, cacheVars, cancelVars, pagVars, clickVars, formVars, dashVars>>
    \/ InitSettles /\ UNCHANGED <<waitVars, gatherVars, urlVars, detectVars, scoreVars, batchVars, cacheVars, cancelVars, pagVars, clickVars, formVars, dashVars>>

SpecLoader == SpecLoaderInit /\ [][SpecLoaderNext]_vars

SpecFormInit == FormInit /\ WaitIdle /\ GatherIdle /\ UrlIdle /\ DetectIdle /\ ScoreIdle /\ BatchIdle /\ CacheIdle /\ CancelIdle /\ PaginationIdle /\ ClickIdle /\ LoaderIdle /\ DashboardIdle

SpecFormNext ==
    \/ fillForm /\ UNCHANGED <<waitVars, gatherVars, urlVars, detectVars, scoreVars, batchVars, cacheVars, cancelVars, pagVars, clickVars, loaderVars, dashVars>>
    \/ FieldLookupSettles /\ UNCHANGED <<waitVars, gatherVars, urlVars, detectVars, scoreVars, batchVars, cacheVars, cancelVars, pagVars, clickVars, loaderVars, dashVars>>
    \/ FieldPauseOver /\ UNCHANGED <<waitVars, gatherVars, urlVars, detectVars, scoreVars, batchVars, cacheVars, cancelVars, pagVars, clickVars, loaderVars, dashVars>>
    \/ SubmitLookupSettles /\ UNCHANGED <<waitVars, gatherVars, urlVars, detectVars, scoreVars, batchVars, cacheVars, cancelVars, pagVars, clickVars, loaderVars, dashVars>>
    \/ SubmitClickSettles /\ UNCHANGED <<waitVars, gatherVars, urlVars, detectVars, scoreVars, batchVars, cacheVars, cancelVars, pagVars, clickVars, loaderVars, dashVars>>

SpecForm == SpecFormInit /\ [][SpecFormNext]_vars

SpecDashboardInit == DashboardInit /\ WaitIdle /\ GatherIdle /\ UrlIdle /\ DetectIdle /\ ScoreIdle /\ BatchIdle /\ CacheIdle /\ CancelIdle /\ PaginationIdle /\ ClickIdle /\ LoaderIdle /\ FormIdle

SpecDashboardNext ==
    \/ changeInput /\ UNCHANGED <<waitVars, gatherVars, urlVars, detectVars, scoreVars, batchVars, cacheVars, cancelVars, pagVars, clickVars, loaderVars, formVars>>
    \/ changeCheckbox /\ UNCHANGED <<waitVars, gatherVars, urlVars, detectVars, scoreVars, batchVars, cacheVars, cancelVars, pagVars, clickVars, loaderVars, formVars>>
    \/ saveSettings /\ UNCHANGED <<waitVars, gatherVars, urlVars, detectVars, scoreVars, batchVars, cacheVars, cancelVars, pagVars, clickVars, loaderVars, formVars>>
    \/ resetSettings /\ UNCHANGED <<waitVars, gatherVars, urlVars, detectVars, scoreVars, batchVars, cacheVars, cancelVars, pagVars, clickVars, loaderVars, formVars>>
    \/ startSmartSelector /\ UNCHANGED <<waitVars, gatherVars, urlVars, detectVars, scoreVars, batchVars, cacheVars, cancelVars, pagVars, clickVars, loaderVars, formVars>>
    \/ startQuickSelection /\ UNCHANGED <<waitVars, gatherVars, urlVars, detectVars, scoreVars, batchVars, cacheVars, cancelVars, pagVars, clickVars, loaderVars, formVars>>
    \/ stopSmartSelector /\ UNCHANGED <<waitVars, gatherVars, urlVars, detectVars, scoreVars, batchVars, cacheVars, cancelVars, pagVars, clickVars, loaderVars, formVars>>
    \/ handleSelectorPicked /\ UNCHANGED <<waitVars, gatherVars, urlVars, detectVars, scoreVars, batchVars, cacheVars, cancelVars, pagVars, clickVars, loaderVars, formVars>>
    \/ useSmartSelector /\ UNCHANGED <<waitVars, gatherVars, urlVars, detectVars, scoreVars, batchVars, cacheVars, cancelVars, pagVars, clickVars, loaderVars, formVars>>
    \/ startSmartDetection /\ UNCHANGED <<waitVars, gatherVars, urlVars, detectVars, scoreVars, batchVars, cacheVars, cancelVars, pagVars, clickVars, loaderVars, formVars>>
    \/ handleExport /\ UNCHANGED <<waitVars, gatherVars, urlVars, detectVars, scoreVars, batchVars, cacheVars, cancelVars, pagVars, clickVars, loaderVars, formVars>>
    \/ proceedWithExport /\ UNCHANGED <<waitVars, gatherVars, urlVars, detectVars, scoreVars, batchVars, cacheVars, cancelVars, pagVars, clickVars, loaderVars, formVars>>
    \/ stopAll /\ UNCHANGED <<waitVars, gatherVars, urlVars, detectVars, scoreVars, batchVars, cacheVars, cancelVars, pagVars, clickVars, loaderVars, formVars>>

SpecDashboard == SpecDashboardInit /\ [][SpecDashboardNext]_vars

(***************************************************************************)
(* Properties of the dimension lookup.                                     *)
(***************************************************************************)
Range(seq) == {seq[k] : k \in 1..Len(seq)}

\* The positions of a pass whose lookup has settled.
LookedUp(pass) == {l.cursor : l \in {m \in Range(lookups) : m.pass = pass}}

\* The positions of the selector pass and of the sweep that hold a valid
\* image URL, the ones a dimension lookup is made for.
SelectorPositions ==
    {c \in 1..Len(SelectorWork(document, gatherConfig)) :
        ExtractedUrl(document[SelectorWork(document, gatherConfig)[c]], gatherConfig) # NullUrl}

SweepPositions ==
    {c \in 1..Len(SweepWork(document)) :
        LET work == SweepWork(document)[c]
            url == normalizeUrl(document[work.element].backgroundImage[work.index],
                                <<>>, Location)
        IN  url # NullUrl /\ isValidImageUrl(url, gatherConfig.formats)}

\* The record a node of the selector pass gives when its lookup failed.
FailedRecord(work, l) == ImageData(work[l.cursor], document[work[l.cursor]], l.url, NoSize)

\* C11: a failed dimension lookup leaves the node's record in place with
\* natural dimensions 0 x 0: in the selector pass the record reaches the
\* duplicate check whenever it passes validation with those dimensions, in
\* the sweep it joins the background records; and the call goes on: when
\* gatherImages has returned, every position of both passes that holds a
\* valid image URL has had its lookup, and every URL whose lookup failed and
\* whose record passed validation is in the results.
C11_ProbeFailureKeepsRecord ==
    \E work \in {SelectorWork(document, gatherConfig)} :
    \E sweep \in {SweepWork(document)} :
        /\ \A l \in Range(lookups) :
               l.failed =>
                   IF l.pass = "selectors"
                   THEN validateImageData(FailedRecord(work, l), gatherConfig) =>
                            FailedRecord(work, l) \in Range(encountered)
                   ELSE BackgroundData(sweep[l.cursor].element, l.url, NoSize)
                            \in Range(backgroundImages)
        /\ GatherDone =>
               /\ LookedUp("selectors") = SelectorPositions
               /\ gatherConfig.includeBackgrounds => LookedUp("sweep") = SweepPositions
               /\ \A l \in Range(lookups) :
                      (/\ l.failed
                       /\ l.pass = "selectors" =>
                              validateImageData(FailedRecord(work, l), gatherConfig))
                          => \E r \in Range(imageResults) : r.url = l.url

\* A lookup failed, a later one was made, and the results hold a record with
\* natural dimensions 0 x 0.
C11_Witness ==
    /\ GatherDone
    /\ \E j, k \in 1..Len(lookups) : j < k /\ lookups[j].failed
    /\ \E r \in Range(imageResults) : r.natural = NoSize
(***************************************************************************)
(* Termination of gatherImages.  The steps gatherImages takes by itself    *)
(* are those between two suspensions; the event loop runs each as soon as  *)
(* the call is ready to continue.  Whether and when a dimension lookup     *)
(* settles is up to the resource: getImageDimensions (lines 572-579)       *)
(* settles only in img.onload or img.onerror and sets no timer, so         *)
(* nothing in the code makes ProbeLoaded or ProbeFailed happen.            *)
(***************************************************************************)
GatherStep ==
    \/ ExtractNothing
    \/ ExtractStartProbe
    \/ SelectorsDone
    \/ SweepNothing
    \/ SweepStartProbe
    \/ SweepDone

SpecGatherFair ==
    SpecGatherInit /\ [][SpecGatherNext]_vars /\ WF_vars(GatherStep /\ UNCHANGED <<waitVars, urlVars, detectVars, scoreVars, batchVars, cacheVars, cancelVars, pagVars, clickVars, loaderVars, formVars, dashVars>>)

\* C12: gatherImages over a finite page eventually returns, also when the
\* resource of some lookup never answers.
C12_GatherReturns == <>GatherDone
(***************************************************************************)
(* Properties of normalizeUrl.                                             *)
(***************************************************************************)
Returned == urlPc \in {"returned", "renormalized"}

\* C13: normalizing the result of normalizeUrl again under the same options
\* gives the same URL, for absolute, relative and protocol-relative inputs.
C13_Idempotent ==
    (/\ urlPc = "renormalized"
     /\ CleanUrl(urlInput).form \in {"abs", "protorel", "rel"})
        => urlAgain = urlResult

\* C14: an input that is empty once surrounding white space and quotes are
\* trimmed gives null, never a URL.
C14_EmptyInputInvalid ==
    (Returned /\ CleanUrl(urlInput).form = "empty") => urlResult = NullUrl

\* The number of slashes of a path: one before each segment, and the one at
\* the end.
PathSlashes(u) == Len(u.segs) + (IF u.slash THEN 1 ELSE 0)

\* The names along a path.
PathNames(u) ==
    LET named == {k \in 1..Len(u.segs) : u.segs[k] # Seg("", "")}
    IN  {<<Cardinality({j \in named : j <= k}), u.segs[k]>> : k \in named}

Without(options, key) == [k \in DOMAIN options \ {key} |-> options[k]]

\* C15: with removeTrailingSlash set, a path longer than "/" that ends in a
\* slash loses exactly one slash and nothing else, every other path,
\* the root "/" included, is left as it is, and the path is never empty.
C15_OneTrailingSlashRemoved ==
    (Returned /\ Has(urlOptions, "removeTrailingSlash") /\ urlResult # NullUrl) =>
        LET before == normalizeUrl(urlInput, Without(urlOptions, "removeTrailingSlash"),
                                   urlLocation)
        IN  /\ IF before.slash /\ before.segs # <<>>
               THEN /\ PathSlashes(urlResult) = PathSlashes(before) - 1
                    /\ PathNames(urlResult) = PathNames(before)
                    /\ [urlResult EXCEPT !.segs = <<>>, !.slash = TRUE]
                           = [before EXCEPT !.segs = <<>>, !.slash = TRUE]
               ELSE urlResult = before
            /\ urlResult.segs # <<>> \/ urlResult.slash

\* A path that ended in two slashes has been normalized with
\* removeTrailingSlash and ends in one.
C15_Witness ==
    /\ Returned
    /\ Has(urlOptions, "removeTrailingSlash")
    /\ CleanUrl(urlInput).form = "abs"
    /\ urlInput.segs = <<Seg("dir", ""), Seg("", "")>> /\ urlInput.slash
    /\ urlResult.segs = <<Seg("dir", "")>> /\ urlResult.slash

\* C16: a protocol-relative input gets the scheme of the page, host and path
\* as given; with forceHttps the result's scheme is never http:, so that
\* //cdn.example.com/a.jpg gives https://cdn.example.com/a.jpg on a page
\* loaded over https, and over http when forceHttps is set.
C16_ProtocolRelativeExpanded ==
    (Returned /\ CleanUrl(urlInput).form = "protorel") =>
        /\ urlResult.form = "abs"
        /\ urlResult.host = urlInput.host
        /\ PathNames(urlResult) = PathNames(urlInput)
        /\ IF Has(urlOptions, "forceHttps")
           THEN urlResult.protocol = "https:"
           ELSE urlResult.protocol = urlLocation.protocol
        /\ (/\ urlInput = ProtocolRelative("cdn.example.com", <<Seg("a", "jpg")>>)
            /\ Has(urlOptions, "forceHttps") \/ urlLocation.protocol = "https:"
            /\ DOMAIN urlOptions \subseteq {"forceHttps"})
               => urlResult = AbsUrl("https:", "cdn.example.com", <<Seg("a", "jpg")>>)

\* Scenario C has run, on a page loaded over http.
C16_Witness ==
    /\ Returned
    /\ urlInput = ProtocolRelative("cdn.example.com", <<Seg("a", "jpg")>>)
    /\ urlOptions = [forceHttps |-> TRUE]
    /\ urlLocation.protocol = "http:"
    /\ urlResult = AbsUrl("https:", "cdn.example.com", <<Seg("a", "jpg")>>)
(***************************************************************************)
(* Properties of the gallery detection.                                    *)
(***************************************************************************)
\* The last call of detectGalleryPage evaluated the signals.
Evaluated == detectCalls # <<>> /\ detectCalls[Len(detectCalls)].evaluated

LastOutcome == detectCalls[Len(detectCalls)].outcome

\* Signal k returns true on the page the signals were evaluated on.
ReturnsTrue(k) ==
    LET on == evaluatedOn[1]
    IN  /\ ~IndicatorRaises(on.document, on.location, k)
        /\ Indicator(on.document, on.location, k)

\* C17: detection never raises, and its verdict is true exactly when at
\* least one signal returns true, a raising signal counting as false
\* wherever it stands; the page with 3 images and no matching signal gives
\* false.
C17_VerdictIsSomeSignal ==
    Evaluated =>
        /\ LastOutcome # "raised"
        /\ LastOutcome = "true" <=> \E k \in 1..IndicatorCount : ReturnsTrue(k)
        /\ (evaluatedOn[1].document = PlainPage /\ evaluatedOn[1].location = HomeLocation)
               => LastOutcome = "false"

\* A signal raised, no signal before it returned true, and a later one did.
C17_Witness ==
    /\ Evaluated
    /\ LastOutcome = "true"
    /\ \E k \in 1..IndicatorCount :
           /\ IndicatorRaises(evaluatedOn[1].document, evaluatedOn[1].location, k)
           /\ \A j \in 1..k : ~ReturnsTrue(j)

\* C18: within a page load the verdict is computed once: only the first
\* call evaluates the signals, and every later call returns what the first
\* returned, whatever the page has turned into.
C18_VerdictWrittenOnce ==
    \A i \in 1..Len(detectCalls) :
        /\ detectCalls[i].evaluated <=> i = 1
        /\ detectCalls[i].outcome = detectCalls[1].outcome

\* A later call returned the first verdict after the page had changed into
\* one on which the signals give the other verdict.
C18_Witness ==
    /\ Len(detectCalls) > 1
    /\ detectCalls[Len(detectCalls)].changesLeft < detectCalls[1].changesLeft
    /\ changesLeft = detectCalls[Len(detectCalls)].changesLeft
    /\ SomeIndicatorFrom(pageDocument, pageLocation, 1) # detectCalls[1].outcome
    /\ LastOutcome = detectCalls[1].outcome

\* C19: a call that returns the cached verdict returns one computed for the
\* page identity the page has at that call; after the identity has changed
\* the signals are evaluated again.
C19_CacheKeyedByIdentity ==
    \A i \in 1..Len(detectCalls) :
        ~detectCalls[i].evaluated =>
            detectCalls[i].key = getSiteKey(evaluatedOn[1].location)

\* C20: on a page with 8 or more images (the 10 of Scenario A among them),
\* each rendered at 50 x 50 px or more, detection gives true.
C20_SignificantImagesSuffice ==
    Evaluated =>
        LET doc == evaluatedOn[1].document
        IN  (/\ doc.imgCount >= 8
             /\ doc.imgWidth >= 50
             /\ doc.imgHeight >= 50)
                => LastOutcome = "true"
(***************************************************************************)
(* Properties of smartElementDetection.                                    *)
(***************************************************************************)
ScoreReturned == scorePc = "returned"

\* C21: every candidate smartElementDetection returns has a score in
\* [0, 1], whatever the features of its node and with content analysis on
\* or off.
C21_ScoreWithinUnitInterval ==
    ScoreReturned =>
        \A j \in 1..Len(candidates) :
            FloatGeq(candidates[j].score, Zero) /\ FloatGeq(One, candidates[j].score)

\* The weights of section 4.5 in tenths, and their total for a node: the
\* score in exact decimal arithmetic.
WeightTotal(node, cfg) ==
    (IF node.image THEN 3 ELSE 0) + (IF node.video THEN 2 ELSE 0)
    + (IF node.link THEN 2 ELSE 0) + (IF node.text # "none" THEN 1 ELSE 0)
    + (IF node.className # "none" THEN 1 ELSE 0) + (IF node.id THEN 1 ELSE 0)
    + (IF node.data THEN 1 ELSE 0)
    + (IF cfg.contentAnalysis /\ HasImageTerm(node) THEN 2 ELSE 0)

\* The decimal the caller wrote for minScore, in tenths.
MinScoreTenths(cfg) ==
    CASE cfg.minScore = Zero -> 0
      [] cfg.minScore = PointSix -> 6
      [] cfg.minScore = PointSeven -> 7
      [] cfg.minScore = PointEight -> 8
      [] cfg.minScore = One -> 10

\* C22: smartElementDetection returns exactly the considered nodes (the
\* visible ones, or all with includeInvisible) whose total score is at
\* least minScore, each once, ordered by non-increasing total, nodes of
\* equal total in document order.
C22_SelectedAndRanked ==
    ScoreReturned =>
        LET cfg      == MakeCriteria(criteria)
            total(j) == WeightTotal(allElements[candidates[j].element], cfg)
        IN  /\ {candidates[j].element : j \in 1..Len(candidates)}
                   = {k \in 1..Len(allElements) :
                          /\ cfg.includeInvisible \/ allElements[k].vis
                          /\ WeightTotal(allElements[k], cfg) >= MinScoreTenths(cfg)}
            /\ \A i, j \in 1..Len(candidates) :
                   i < j =>
                       /\ candidates[i].element # candidates[j].element
                       /\ total(i) >= total(j)
                       /\ total(i) = total(j) => candidates[i].element < candidates[j].element
(***************************************************************************)
(* Properties of batchProcess.                                             *)
(***************************************************************************)
BatchReturned == batchPc = "returned"

\* What the processor gives for the item at position k when invoked on it
\* with index k - 1 (positions count from 1, indexes from 0): its value, or
\* the error-tagged entry that stands for its failure.
OutcomeAt(k) ==
    IF batchElements[k].does = "value"
    THEN [item |-> batchElements[k].id, index |-> k - 1]
    ELSE [error |-> "failed", element |-> batchElements[k], index |-> k - 1]

\* C23: whatever the order the invocations of a chunk complete in, the list
\* batchProcess returns is as long as elements, and its position k holds
\* the outcome of the processor invoked on elements[k] with index k.
C23_ResultsByPosition ==
    BatchReturned =>
        /\ Len(batchResults) = Len(batchElements)
        /\ \A k \in 1..Len(batchElements) : batchResults[k] = OutcomeAt(k)

\* batchProcess returned after two invocations of one chunk completed in
\* the reverse of their order in elements, one of them a failure.
C23_Witness ==
    /\ BatchReturned
    /\ batchConfig.continueOnError
    /\ \E j, k \in 1..Len(completions) :
           /\ j < k
           /\ completions[j] > completions[k]
           /\ \E a, b \in 1..Len(invocations) :
                  /\ invocations[a].position = completions[j]
                  /\ invocations[b].position = completions[k]
                  /\ invocations[a].chunk = invocations[b].chunk
    /\ \E k \in 1..Len(batchElements) : batchElements[k].does = "error"

\* C24: never more than batchSize invocations are in flight; when the
\* processor is invoked on an item, no invocation of an earlier chunk is in
\* flight and, but for the first chunk, delayBetweenBatches has passed since
\* the chunk before settled; batchProcess sleeps only when items are left,
\* and returns without having slept after the last chunk.
C24_BoundedAndPaced ==
    /\ Cardinality(InFlight(batchPromises)) <= batchConfig.batchSize
    /\ \A k \in 1..Len(invocations) :
           /\ invocations[k].busy = {}
           /\ invocations[k].chunk > 0 =>
                  invocations[k].waited >= batchConfig.delayBetweenBatches
    /\ batchPc = "sleep" => \E p \in 1..Len(batchElements) : batchPromises[p] = Unstarted
    /\ BatchReturned => sinceSettled = 0

\* batchProcess returned after a chunk of two invocations in flight at once
\* and a later chunk that waited for the delay.
C24_Witness ==
    /\ BatchReturned
    /\ batchConfig.batchSize = 2
    /\ \E k \in 1..Len(invocations) : invocations[k].chunk > 0 /\ invocations[k].waited > 0
    /\ \E j, k \in 1..Len(completions) : j < k /\ completions[j] > completions[k]

\* C25: with continueOnError, batchProcess never raises; a failure of the
\* processor on one item becomes an error-tagged entry at that item's
\* position, and the processor is still invoked on every other item.
C25_FailuresIsolated ==
    batchConfig.continueOnError =>
        /\ batchPc # "raised"
        /\ BatchReturned =>
               \A k \in 1..Len(batchElements) :
                   /\ batchPromises[k].state = "fulfilled"
                   /\ batchElements[k].does # "value" =>
                          /\ k <= Len(batchResults)
                          /\ "error" \in DOMAIN batchResults[k]
                          /\ batchResults[k].index = k - 1

\* The items the processor failed on, in the order the failures happened.
Failures == SelectSeq(completions, LAMBDA p : batchElements[p].does # "value")

\* The invocation made on the item at position p.
InvocationOf(p) == CHOOSE k \in 1..Len(invocations) : invocations[k].position = p

\* C26: without continueOnError, once an invocation has failed batchProcess
\* is still waiting on that chunk or has raised, and what it raises is the
\* reason of the first failure; it does not return, and the processor is
\* never invoked on an item of a later chunk.
C26_FirstFailureAborts ==
    (~batchConfig.continueOnError /\ Failures # <<>>) =>
        /\ batchPc \in {"await", "raised"}
        /\ \A k \in 1..Len(invocations) :
               invocations[k].chunk <= invocations[InvocationOf(Failures[1])].chunk
        /\ batchPc = "raised" =>
               batchError = IF batchElements[Failures[1]].does = "error"
                            THEN [kind |-> "Error", message |-> "failed",
                                  of |-> batchElements[Failures[1]].id]
                            ELSE [kind |-> "undefined"]

\* batchProcess raised the failure of an item of the first chunk while
\* items of a later chunk were never started, and every invocation of the
\* first chunk has settled.
C26_Witness ==
    /\ ~batchConfig.continueOnError
    /\ batchPc = "raised"
    /\ batchError.kind = "Error"
    /\ InFlight(batchPromises) = {}
    /\ \E p \in 1..Len(batchElements) : batchPromises[p] = Unstarted
    /\ \E p \in 1..Len(batchElements) : batchPromises[p].state = "fulfilled"
(***************************************************************************)
(* Properties of the selector cache.                                       *)
(***************************************************************************)
Stored(map) == {map[k] : k \in 1..Len(map)}

\* C27: whatever setCachedSelector calls were made, with new keys and with
\* keys written before, the cache never holds more than maxCacheSize
\* entries.
C27_SizeWithinCapacity == Len(selectorCache) <= maxCacheSize

\* A setCachedSelector call on a full cache evicted an entry and left the
\* cache full, after some key had been written twice.
C27_Witness ==
    /\ lastCall.op = "set"
    /\ lastCall.evicted # <<>>
    /\ Len(selectorCache) = maxCacheSize
    /\ KeysWritten < Len(cacheWrites)

\* C28: the entry a setCachedSelector call evicts is the one written the
\* longest ago among the entries stored before the call, also when a key
\* was written again after its first insertion; and getCachedSelector
\* leaves the cache, and so the entry evicted next, as it was.
C28_EvictsLeastRecentlyInserted ==
    /\ lastCall.evicted # <<>> =>
           \A e \in Stored(cacheBefore) : lastCall.evicted[1].selectors.write <= e.selectors.write
    /\ lastCall.op = "get" => selectorCache = cacheBefore

\* The writes of the key of the last call.
WritesOfKey == {k \in DOMAIN cacheWrites : cacheWrites[k].key = lastCall.key}

LatestWriteOfKey == CHOOSE k \in WritesOfKey : \A j \in WritesOfKey : j <= k

\* C29: what getCachedSelector returns was written for that key less than
\* 5 minutes before the read; for a key never written, for a key whose
\* entry was evicted and for an entry written 5 minutes or more before, it
\* returns null.
C29_NoStaleSelectors ==
    lastCall.op = "get" =>
        /\ lastCall.returned # NoSelectors =>
               /\ lastCall.returned.write \in WritesOfKey
               /\ lastCall.at - cacheWrites[lastCall.returned.write].at < SelectorTtl
        /\ (\/ WritesOfKey = {}
            \/ \A e \in Stored(selectorCache) : e.key # lastCall.key
            \/ lastCall.at - cacheWrites[LatestWriteOfKey].at >= SelectorTtl)
               => lastCall.returned = NoSelectors

\* getCachedSelector returned null for a stored entry written exactly 5
\* minutes before.
C29_Witness ==
    /\ lastCall.op = "get"
    /\ lastCall.returned = NoSelectors
    /\ \E e \in Stored(selectorCache) :
           e.key = lastCall.key /\ lastCall.at - e.timestamp = SelectorTtl

\* C30: right after a setCachedSelector call the cache holds no entry older
\* than the 5 minute time-to-live.
C30_NoExpiredEntryAfterWrite ==
    lastCall.op = "set" =>
        \A e \in Stored(selectorCache) : lastCall.at - e.timestamp <= SelectorTtl
(***************************************************************************)
(* Termination of batchProcess.  The steps batchProcess takes by itself    *)
(* run as soon as what they wait for has happened: the event loop resumes  *)
(* the call when Promise.all settles and when the timer of sleep() fires.  *)
(* That every invocation of the processor settles is the caller's part.    *)
(***************************************************************************)
BatchStep ==
    \/ batchProcess
    \/ WorkerSettles
    \/ ChunkDone
    \/ ChunkFailed
    \/ BatchWake

SpecBatchFair ==
    SpecBatchInit /\ [][SpecBatchNext]_vars /\ WF_vars(BatchStep /\ UNCHANGED <<waitVars, gatherVars, urlVars, detectVars, scoreVars, cacheVars, cancelVars, pagVars, clickVars, loaderVars, formVars, dashVars>>)

BatchEnded == batchPc \in {"returned", "raised"}

\* C36: batchProcess comes to an end whatever configuration the caller
\* passes, a batchSize or delayBetweenBatches of 0 included, and when it
\* returns it returns one result per item.
C36_BatchTerminates ==
    /\ <>BatchEnded
    /\ [](BatchReturned => Len(batchResults) = Len(batchElements))
(***************************************************************************)
(* Properties of cancellation.                                             *)
(***************************************************************************)
\* C31: once the caller has requested cancellation, batchProcess starts no
\* further chunk (the processor is invoked on no further item), and the
\* results collected before the request stay as they were.
C31_CancellationStopsWork ==
    abortSignal =>
        /\ Len(invocations) = atAbort.invocations
        /\ Len(batchResults) >= Len(atAbort.results)
        /\ SubSeq(batchResults, 1, Len(atAbort.results)) = atAbort.results

(***************************************************************************)
(* Properties of the Pagination Traverser.                                 *)
(***************************************************************************)
\* C32: a traversal whose rounds 1 and 2 each yield new records and whose
\* round 3 yields none is over after round 3 with terminationReason
\* "no-new-records", and what it has accumulated is the union of the
\* records of rounds 1 and 2, each once; and no round is started before
\* the round before it has settled.
C32_ThirdRoundEndsTraversal ==
    /\ \A r \in 1..Len(rounds) : r < paginationState.roundIndex => rounds[r].settled
    /\ paginationState.roundIndex <= Len(rounds) + 1
    /\ (Len(rounds) >= 3 /\ rounds[1].new > 0 /\ rounds[2].new > 0 /\ rounds[3].new = 0) =>
           /\ pagPc = "Done"
           /\ paginationState.terminationReason = "no-new-records"
           /\ Len(rounds) = 3
           /\ paginationState.roundIndex = 3
           /\ Range(accumulated) = rounds[1].yield \cup rounds[2].yield
           /\ Cardinality(Range(accumulated)) = Len(accumulated)

C32_Witness ==
    /\ Len(rounds) = 3
    /\ rounds[1].new > 0
    /\ rounds[2].new > 0
    /\ rounds[3].new = 0
    /\ rounds[3].yield # {}
    /\ rounds[2].yield \cap rounds[1].yield # {}
    /\ pagPc = "Done"

(***************************************************************************)
(* Properties of clickElement.                                             *)
(***************************************************************************)
ClickEnded == clickPc = "returned"

FoundClickable(check) == check.vis /\ check.en

\* C33: clickElement ends by returning true or false, never by raising.  It
\* activates the element at most once, in an attempt whose checks found it
\* visible and enabled, and then returns true at once.  It returns false,
\* with no activation, for a null element and when no attempt found the
\* element visible and enabled.
C33_ClickReportsOutcome ==
    /\ clickPc \in {"call", "scrolled", "backoff", "returned"}
    /\ ClickEnded => clickResult \in {ClickReturned(TRUE), ClickReturned(FALSE)}
    /\ Len(activations) <= 1
    /\ \A k \in 1..Len(activations) :
          /\ activations[k].attempt = Len(clickChecks)
          /\ FoundClickable(clickChecks[activations[k].attempt])
          /\ ClickEnded
          /\ clickResult = ClickReturned(TRUE)
    /\ (ClickEnded /\ clickTarget = NullElement) =>
          /\ clickResult = ClickReturned(FALSE)
          /\ activations = <<>>
    /\ (ClickEnded /\ \A k \in 1..Len(clickChecks) : ~FoundClickable(clickChecks[k])) =>
          /\ clickResult = ClickReturned(FALSE)
          /\ activations = <<>>
          /\ clickTarget # NullElement => Len(clickChecks) = clickConfig.retries

C33_Witness ==
    /\ ClickEnded
    /\ Len(clickChecks) = 2
    /\ ~FoundClickable(clickChecks[1])
    /\ activations = <<[attempt |-> 2, strategy |-> "dispatchEvent"]>>
    /\ clickDom[clickTarget].kind = "svg"
    /\ clickConfig.clickStrategies = DefaultStrategies
(***************************************************************************)
(* Properties of loadEnhancedModules.                                      *)
(***************************************************************************)
LoaderReturned(c) == loaderCalls[c].pc = "returned"

\* The calls that have injected the script of a URL.
InjectedBy(url) ==
    {c \in 1..Len(loaderCalls) :
        \E i \in 1..loaderCalls[c].at : moduleLoaders[i].url = url}

\* A call without force on a page the detector does not take for a gallery
\* injects nothing, and the flag is set only by a call that went through
\* the whole list.
GateHolds ==
    /\ \A c \in 1..Len(loaderCalls) :
          (~loaderCalls[c].force /\ loaderCalls[c].verdict = "false") =>
              /\ loaderCalls[c].at = 0
              /\ LoaderReturned(c)
    /\ enhancedModulesLoaded =>
          \E c \in 1..Len(loaderCalls) :
              /\ LoaderReturned(c)
              /\ loaderCalls[c].at = Len(moduleLoaders)
              /\ loaderCalls[c].force \/ loaderCalls[c].verdict = "true"

FormReturned == formPc = "returned"

\* C35: when fillForm returns success = true, every field of formData was
\* found and filled, the submit button was found when submitAfterFill is
\* set, and the errors list is empty.
C35_SuccessMeansNoErrors ==
    (FormReturned /\ formResults.success) =>
        /\ formResults.errors = <<>>
        /\ formResults.filledFields = formData
        /\ formConfig.submitAfterFill => submitLookup = "found"
(***************************************************************************)
(* Properties of the dashboard.                                            *)
(***************************************************************************)
\* C38: once the user has changed a settings control, the entry of
\* this.settings the control represents equals the control's value, and a
\* START_SCRAPING message carries the state of the skipDuplicates checkbox.
C38_ControlChangesSetting ==
    /\ \A fieldId \in changed :
          Represented(settings, fieldId) = ControlValue(controls, fieldId)
    /\ lastTabMessage.type = "START_SCRAPING" =>
          lastTabMessage.skipDuplicates = lastTabMessage.checkbox

\* C39: in demo mode no message has been sent to a page tab, and
\* scrapingActive and smartSelectorActive are false.
C39_DemoSendsNothing ==
    isDemo =>
        /\ lastTabMessage = NoMessage
        /\ ~scrapingActive
        /\ ~smartSelectorActive

====
